---------------------------- MODULE Spec2Model ----------------------------
(***************************************************************************)
(* A model of the Modbus RTU/TCP protocol engine of verify-modbus-demo:    *)
(* the master transaction core (modbus_master.c), the slave dispatch core  *)
(* (modbus_slave.c), the TCP frame codec (modbus_tcp.c) and the transport  *)
(* backend.  Frames are sequences of bytes; the codecs work on the bytes.  *)
(***************************************************************************)
EXTENDS Integers, Sequences, FiniteSets, TLC

VARIABLES
    cfg,        \* build options: [addr_chk, mbap_chk] (MB_USING_ADDR_CHK, MB_USING_MBAP_CHK)
    prototype,  \* hinst->prototype of the instance: "RTU" or "TCP"
    saddr,      \* hinst->saddr of the instance
    tsid,       \* hinst->tsid, the u16 transaction counter of the master
    tid,        \* hinst->tid, the field the MBAP check of the master reads
    ntcp,       \* number of TCP transactions the master has started
    nops,       \* number of master operations or slave steps started
    mst,        \* the master operation that has just returned, or Idle
    slv,        \* the slave instance and the slave step that has just returned
    bkd,        \* a transport backend, its port and the line behind it
    pair,       \* two instances over two backends, and their transports
    codec       \* a frame structure handed to the TCP frame codec

vars == <<cfg, prototype, saddr, tsid, tid, ntcp, nops, mst, slv, bkd, pair, codec>>

-----------------------------------------------------------------------------
(* Bit operations on unsigned integers of a given width                    *)

RECURSIVE XorN(_, _, _)
XorN(a, b, n) ==
    IF n = 0 THEN 0
    ELSE (((a % 2) + (b % 2)) % 2) + 2 * XorN(a \div 2, b \div 2, n - 1)

RECURSIVE AndN(_, _, _)
AndN(a, b, n) ==
    IF n = 0 THEN 0
    ELSE ((a % 2) * (b % 2)) + 2 * AndN(a \div 2, b \div 2, n - 1)

Xor4 == [a \in 0..15 |-> [b \in 0..15 |-> XorN(a, b, 4)]]

Xor8(a, b) == Xor4[a \div 16][b \div 16] * 16 + Xor4[a % 16][b % 16]

Xor16(a, b) == Xor8(a \div 256, b \div 256) * 256 + Xor8(a % 256, b % 256)

And16(a, b) == AndN(a, b, 16)

Not16(a) == 65535 - a

Or16(a, b) == a + b - And16(a, b)

\* MODBUS_FC_EXCEPT_CHK(fc): the high bit of the function code is set
MODBUS_FC_EXCEPT_CHK(fc) == fc >= 128

\* MODBUS_FC_EXCEPT_MAKE(fc): fc | 0x80
MODBUS_FC_EXCEPT_MAKE(fc) == IF fc >= 128 THEN fc ELSE fc + 128

-----------------------------------------------------------------------------
(* Byte codec: big-endian put/get; bitmap with LSB-first bits               *)

modbus_cvt_u8_put(v) == <<v % 256>>

modbus_cvt_u16_put(v) == <<(v % 65536) \div 256, v % 256>>

\* the u16 at 1-based position i of buf
modbus_cvt_u16_get(buf, i) == buf[i] * 256 + buf[i + 1]

modbus_bitmap_get(buf, i) == (buf[(i \div 8) + 1] \div (2 ^ (i % 8))) % 2

modbus_bitmap_set(buf, i, bit) ==
    LET k   == (i \div 8) + 1
        old == (buf[k] \div (2 ^ (i % 8))) % 2
        new == IF bit # 0 THEN 1 ELSE 0
    IN  [buf EXCEPT ![k] = buf[k] + (new - old) * (2 ^ (i % 8))]

SubSeqFrom(buf, i) == IF i > Len(buf) THEN <<>> ELSE SubSeq(buf, i, Len(buf))

-----------------------------------------------------------------------------
(* CRC-16/Modbus: reflected polynomial 0xA001, initial value 0xFFFF         *)

MB_CRC_INIT_VOL == 65535

RECURSIVE CrcShift(_, _)
CrcShift(c, n) ==
    IF n = 0 THEN c
    ELSE CrcShift(IF c % 2 = 1 THEN Xor16(c \div 2, 40961) ELSE c \div 2, n - 1)

CrcTable == [i \in 0..255 |-> CrcShift(i, 8)]

RECURSIVE modbus_crc_cyc_cal(_, _)
modbus_crc_cyc_cal(init, pdata) ==
    IF pdata = <<>> THEN init
    ELSE modbus_crc_cyc_cal(
            Xor16(init \div 256, CrcTable[Xor8(init % 256, Head(pdata))]),
            Tail(pdata))

modbus_crc_cal(pdata) == modbus_crc_cyc_cal(MB_CRC_INIT_VOL, pdata)

-----------------------------------------------------------------------------
(* PDU codec.  A PDU is the tagged union mb_pdu_t, kept as one record with  *)
(* the fields of every variant; fc is the tag shared by all variants.       *)

MB_PDU_TYPE_REQ == "REQ"
MB_PDU_TYPE_RSP == "RSP"

MODBUS_FC_READ_COILS               == 1
MODBUS_FC_READ_DISCRETE_INPUTS     == 2
MODBUS_FC_READ_HOLDING_REGISTERS   == 3
MODBUS_FC_READ_INPUT_REGISTERS     == 4
MODBUS_FC_WRITE_SINGLE_COIL        == 5
MODBUS_FC_WRITE_SINGLE_REGISTER    == 6
MODBUS_FC_WRITE_MULTIPLE_COILS     == 15
MODBUS_FC_WRITE_MULTIPLE_REGISTERS == 16
MODBUS_FC_MASK_WRITE_REGISTER      == 22
MODBUS_FC_WRITE_AND_READ_REGISTERS == 23

MODBUS_EC_ILLEGAL_FUNCTION        == 1
MODBUS_EC_ILLEGAL_DATA_ADDRESS    == 2
MODBUS_EC_ILLEGAL_DATA_VALUE      == 3
MODBUS_EC_SLAVE_OR_SERVER_FAILURE == 4

\* smallest PDU the parsers look at, and the quantity limits of a request
MB_PDU_SIZE_MIN == 1
MB_PDU_BITS_MAX == 2000
MB_PDU_REGS_MAX == 125

FcReadBits == {MODBUS_FC_READ_COILS, MODBUS_FC_READ_DISCRETE_INPUTS}
FcReadRegs == {MODBUS_FC_READ_HOLDING_REGISTERS, MODBUS_FC_READ_INPUT_REGISTERS}
FcRead     == FcReadBits \cup FcReadRegs
FcSingle   == {MODBUS_FC_WRITE_SINGLE_COIL, MODBUS_FC_WRITE_SINGLE_REGISTER}
FcMulti    == {MODBUS_FC_WRITE_MULTIPLE_COILS, MODBUS_FC_WRITE_MULTIPLE_REGISTERS}
FcSupported ==
    FcRead \cup FcSingle \cup FcMulti
        \cup {MODBUS_FC_MASK_WRITE_REGISTER, MODBUS_FC_WRITE_AND_READ_REGISTERS}

\* mb_pdu_t with every field zero
PduZero ==
    [fc |-> 0, ec |-> 0, addr |-> 0, nb |-> 0, val |-> 0, val_and |-> 0,
     val_or |-> 0, rd_addr |-> 0, rd_nb |-> 0, wr_addr |-> 0, wr_nb |-> 0,
     dlen |-> 0, pdata |-> <<>>]

\* the first n bytes at pdata (bytes past the end of the model's data read as 0)
Bytes(pdata, n) == [i \in 1..n |-> IF i <= Len(pdata) THEN pdata[i] ELSE 0]

\* modbus_pdu_make(buf, pdu, type): the bytes written; <<>> is length 0
modbus_pdu_make(pdu, type) ==
    LET fc == pdu.fc IN
    IF MODBUS_FC_EXCEPT_CHK(fc) THEN <<fc, pdu.ec % 256>>
    ELSE IF fc \in FcRead /\ type = MB_PDU_TYPE_REQ THEN
        <<fc>> \o modbus_cvt_u16_put(pdu.addr) \o modbus_cvt_u16_put(pdu.nb)
    ELSE IF fc \in FcRead \cup {MODBUS_FC_WRITE_AND_READ_REGISTERS}
            /\ type = MB_PDU_TYPE_RSP THEN
        <<fc, pdu.dlen % 256>> \o Bytes(pdu.pdata, pdu.dlen)
    ELSE IF fc \in FcSingle THEN
        <<fc>> \o modbus_cvt_u16_put(pdu.addr) \o modbus_cvt_u16_put(pdu.val)
    ELSE IF fc \in FcMulti /\ type = MB_PDU_TYPE_REQ THEN
        <<fc>> \o modbus_cvt_u16_put(pdu.addr) \o modbus_cvt_u16_put(pdu.nb)
            \o <<pdu.dlen % 256>> \o Bytes(pdu.pdata, pdu.dlen)
    ELSE IF fc \in FcMulti THEN
        <<fc>> \o modbus_cvt_u16_put(pdu.addr) \o modbus_cvt_u16_put(pdu.nb)
    ELSE IF fc = MODBUS_FC_MASK_WRITE_REGISTER THEN
        <<fc>> \o modbus_cvt_u16_put(pdu.addr) \o modbus_cvt_u16_put(pdu.val_and)
            \o modbus_cvt_u16_put(pdu.val_or)
    ELSE IF fc = MODBUS_FC_WRITE_AND_READ_REGISTERS THEN
        <<fc>> \o modbus_cvt_u16_put(pdu.rd_addr) \o modbus_cvt_u16_put(pdu.rd_nb)
            \o modbus_cvt_u16_put(pdu.wr_addr) \o modbus_cvt_u16_put(pdu.wr_nb)
            \o <<pdu.dlen % 256>> \o Bytes(pdu.pdata, pdu.dlen)
    ELSE <<>>

\* the result of a parser: the returned length and the structure it filled
Parsed(len, out) == [len |-> len, out |-> out]

\* modbus_pdu_parse(buf, len, pdu, type): PDU length, 0 malformed, -1 unsupported
\* fc.  pdu0 is the structure as the caller passed it; the function code is
\* stored first, the other fields only when the PDU is well formed.
modbus_pdu_parse(buf, pdu0, type) ==
    LET len == Len(buf)
        fc  == buf[1]
        p1  == [pdu0 EXCEPT !.fc = fc]
        bc  == buf[2]
    IN
    IF len < MB_PDU_SIZE_MIN THEN Parsed(0, pdu0)
    ELSE IF MODBUS_FC_EXCEPT_CHK(fc) THEN
        IF len < 2 THEN Parsed(0, p1)
        ELSE Parsed(2, [p1 EXCEPT !.ec = buf[2]])
    ELSE IF fc \in FcRead /\ type = MB_PDU_TYPE_REQ THEN
        IF len < 5 THEN Parsed(0, p1)
        ELSE LET nb == modbus_cvt_u16_get(buf, 4)
                 mx == IF fc \in FcReadBits THEN MB_PDU_BITS_MAX ELSE MB_PDU_REGS_MAX
             IN  IF nb < 1 \/ nb > mx THEN Parsed(0, p1)
                 ELSE Parsed(5, [p1 EXCEPT !.addr = modbus_cvt_u16_get(buf, 2),
                                           !.nb = nb])
    ELSE IF fc \in FcRead \cup {MODBUS_FC_WRITE_AND_READ_REGISTERS}
            /\ type = MB_PDU_TYPE_RSP THEN
        IF len < 2 THEN Parsed(0, p1)
        ELSE IF len < 2 + bc THEN Parsed(0, p1)
        ELSE IF fc \notin FcReadBits /\ bc % 2 # 0 THEN Parsed(0, p1)
        ELSE Parsed(2 + bc, [p1 EXCEPT !.dlen = bc,
                                       !.pdata = SubSeq(buf, 3, 2 + bc)])
    ELSE IF fc \in FcSingle THEN
        IF len < 5 THEN Parsed(0, p1)
        ELSE Parsed(5, [p1 EXCEPT !.addr = modbus_cvt_u16_get(buf, 2),
                                  !.val = modbus_cvt_u16_get(buf, 4)])
    ELSE IF fc \in FcMulti /\ type = MB_PDU_TYPE_REQ THEN
        IF len < 6 THEN Parsed(0, p1)
        ELSE LET nb == modbus_cvt_u16_get(buf, 4)
                 n  == buf[6]
                 ok == IF fc = MODBUS_FC_WRITE_MULTIPLE_COILS
                       THEN n = (nb + 7) \div 8 ELSE n = 2 * nb
             IN  IF nb < 1 \/ ~ok \/ len < 6 + n THEN Parsed(0, p1)
                 ELSE Parsed(6 + n, [p1 EXCEPT !.addr = modbus_cvt_u16_get(buf, 2),
                                               !.nb = nb, !.dlen = n,
                                               !.pdata = SubSeq(buf, 7, 6 + n)])
    ELSE IF fc \in FcMulti THEN
        IF len < 5 THEN Parsed(0, p1)
        ELSE Parsed(5, [p1 EXCEPT !.addr = modbus_cvt_u16_get(buf, 2),
                                  !.nb = modbus_cvt_u16_get(buf, 4)])
    ELSE IF fc = MODBUS_FC_MASK_WRITE_REGISTER THEN
        IF len < 7 THEN Parsed(0, p1)
        ELSE Parsed(7, [p1 EXCEPT !.addr = modbus_cvt_u16_get(buf, 2),
                                  !.val_and = modbus_cvt_u16_get(buf, 4),
                                  !.val_or = modbus_cvt_u16_get(buf, 6)])
    ELSE IF fc = MODBUS_FC_WRITE_AND_READ_REGISTERS THEN
        IF len < 10 THEN Parsed(0, p1)
        ELSE LET rn == modbus_cvt_u16_get(buf, 4)
                 wn == modbus_cvt_u16_get(buf, 8)
                 n  == buf[10]
             IN  IF rn < 1 \/ rn > MB_PDU_REGS_MAX \/ wn < 1 \/ n # 2 * wn
                        \/ len < 10 + n
                 THEN Parsed(0, p1)
                 ELSE Parsed(10 + n,
                        [p1 EXCEPT !.rd_addr = modbus_cvt_u16_get(buf, 2),
                                   !.rd_nb = rn,
                                   !.wr_addr = modbus_cvt_u16_get(buf, 6),
                                   !.wr_nb = wn, !.dlen = n,
                                   !.pdata = SubSeq(buf, 11, 10 + n)])
    ELSE Parsed(-1, p1)

-----------------------------------------------------------------------------
(* RTU frame codec: [saddr][PDU][CRC-lo][CRC-hi]                             *)

MB_RTU_FRM_MIN == 4

modbus_rtu_frame_make(frm, type) ==
    LET body == modbus_cvt_u8_put(frm.saddr) \o modbus_pdu_make(frm.pdu, type)
        crc  == modbus_crc_cal(body)
    IN  body \o <<crc % 256, crc \div 256>>

\* frm0 is the frame structure as the caller passed it
modbus_rtu_frame_parse(buf, frm0, type) ==
    LET len == Len(buf) IN
    IF len < MB_RTU_FRM_MIN THEN Parsed(0, frm0)
    ELSE IF modbus_crc_cal(SubSeq(buf, 1, len - 2))
                # buf[len - 1] + 256 * buf[len]
    THEN Parsed(0, frm0)
    ELSE LET r == modbus_pdu_parse(SubSeq(buf, 2, len - 2), frm0.pdu, type)
         IN  Parsed(r.len, [saddr |-> buf[1], pdu |-> r.out])

-----------------------------------------------------------------------------
(* TCP frame codec: [TID(2)][PID(2)][DLEN(2)][UID(1)][PDU]                   *)

MB_TCP_MBAP_SIZE == 7
MB_TCP_MBAP_PID  == 0
MB_TCP_FRM_MIN   == MB_TCP_MBAP_SIZE + MB_PDU_SIZE_MIN

modbus_tcp_frm_make(frm, type) ==
    LET pdu     == modbus_pdu_make(frm.pdu, type)
        pdu_len == Len(pdu)
    IN  modbus_cvt_u16_put(frm.mbap.tid) \o modbus_cvt_u16_put(frm.mbap.pid)
            \o modbus_cvt_u16_put(pdu_len + 1) \o modbus_cvt_u8_put(frm.mbap.did)
            \o pdu

\* frm0 is the frame structure as the caller passed it
modbus_tcp_frm_parse(buf, frm0, type) ==
    LET len == Len(buf) IN
    IF len < MB_TCP_FRM_MIN THEN Parsed(0, frm0)
    ELSE
        LET mbap    == [tid  |-> modbus_cvt_u16_get(buf, 1),
                        pid  |-> modbus_cvt_u16_get(buf, 3),
                        dlen |-> modbus_cvt_u16_get(buf, 5),
                        did  |-> buf[7]]
            remain  == len - MB_TCP_MBAP_SIZE
            r       == modbus_pdu_parse(SubSeqFrom(buf, MB_TCP_MBAP_SIZE + 1),
                                        frm0.pdu, type)
            frm     == [mbap |-> mbap, pdu |-> r.out]
        IN  IF r.len <= 0 THEN Parsed(r.len, frm)
            ELSE IF remain < r.len THEN Parsed(0, frm)
            ELSE Parsed(r.len, frm)

-----------------------------------------------------------------------------
(* Transport backend (modbus_backend.c).                                    *)
(*                                                                         *)
(* bkd is one backend with the port below it and the line behind the port: *)
(*   type, fd, hinst, ack_tmo_ms, byte_tmo_ms   the mb_backend_t object     *)
(*   held       the handles the port has open (devices, sockets)           *)
(*   rxq        the bytes waiting in the port, each marked with the number  *)
(*              of the frame it belongs to                                  *)
(*   fed, gap, inner, idle12                                                *)
(*              what the peer has put on the line: the bytes fed, the ms    *)
(*              since the last one, the longest silence inside a frame and  *)
(*              the silence between frame 1 and frame 2 (-1 before frame 2) *)
(*   pc, bufsize, pos, buf, el                                              *)
(*              the modbus_backend_read call in progress: el is             *)
(*              modbus_port_get_ms() - told_ms                              *)
(*   fedAt, taken, quiet, seen, err, sep                                    *)
(*              what an observer of that call measures: the bytes fed when  *)
(*              it began, the bytes the port handed over, the ms since the  *)
(*              port last handed bytes over (since the call began, if it    *)
(*              has not yet), the same as it was at the last poll that      *)
(*              found the port empty (-1 if the last poll found bytes), a   *)
(*              port error, and whether a poll has found the port empty     *)
(*              more than byte_tmo_ms after the call took the whole of      *)
(*              frame 1                                                     *)
(*   op, ret, was, pcalls, got, run, rets, calls                            *)
(*              the call that has just returned: its result, the handle     *)
(*              before it, the port functions it called, the buffer a read  *)
(*              returned; the handles acquired by the open calls made in a  *)
(*              row, the buffers the reads have returned, the calls made    *)

NULL == 0

MB_BKD_ACK_TMO_MS_DEF  == 300
MB_BKD_BYTE_TMO_MS_DEF == 32

MaxCalls == 2   \* backend calls in one run
MaxFrame == 2   \* bytes in each of the two frames the peer sends
MaxGap   == 4   \* ms up to which a silence on the line is measured

Min(a, b) == IF a < b THEN a ELSE b

\* modbus_backend_create_rtu, _tcp, _sock: the RTU and TCP backends start
\* closed, the SOCK backend adopts the descriptor fd as its handle
modbus_backend_create(type, fd) ==
    [type |-> type, fd |-> fd,
     hinst |-> IF type = "SOCK" THEN fd ELSE NULL,
     ack_tmo_ms |-> MB_BKD_ACK_TMO_MS_DEF,
     byte_tmo_ms |-> MB_BKD_BYTE_TMO_MS_DEF,
     held |-> IF type = "SOCK" THEN {fd} ELSE {},
     rxq |-> <<>>, fed |-> 0, gap |-> 0, inner |-> 0, idle12 |-> -1,
     pc |-> "idle", bufsize |-> 0, pos |-> 0, buf |-> <<>>, el |-> 0,
     fedAt |-> 0, taken |-> 0, quiet |-> 0, seen |-> -1, err |-> FALSE,
     sep |-> FALSE,
     op |-> "create", ret |-> 0, was |-> NULL, pcalls |-> <<>>, got |-> <<>>,
     run |-> 0, rets |-> <<>>, calls |-> 0]

\* a call op of the backend b0 returns ret, leaving the backend as b, after
\* the port functions pcalls, its open having acquired acq handles
Returned(b0, b, op, ret, pcalls, acq) ==
    [b EXCEPT !.pc = "idle", !.op = op, !.ret = ret, !.was = b0.hinst,
              !.pcalls = pcalls,
              !.run = IF op = "open" THEN b0.run + acq ELSE 0,
              !.calls = b0.calls + 1]

\* modbus_port_rtu_open, modbus_port_tcp_open: what the port's open may do.
\* It fails and holds nothing, or it opens the device, or it connects a
\* socket with a descriptor that is not in use and returns (void *)sock.
PortOpens(b) ==
    {[ok |-> FALSE, h |-> NULL]}
        \cup {[ok |-> TRUE, h |-> h] :
                h \in (IF b.type = "RTU" THEN {7} ELSE {0, 3}) \ b.held}

\* modbus_backend_open; o is what the port's open does if it is called
modbus_backend_open(b, o) ==
    IF b.hinst # NULL THEN Returned(b, b, "open", 0, <<>>, 0)
    ELSE IF b.type = "SOCK" THEN Returned(b, b, "open", -1, <<>>, 0)
    ELSE IF ~o.ok THEN Returned(b, b, "open", -1, <<"open">>, 0)
    ELSE Returned(b, [b EXCEPT !.hinst = o.h, !.held = @ \cup {o.h}],
                  "open", IF o.h = NULL THEN -1 ELSE 0, <<"open">>, 1)

\* modbus_backend_close; ok is whether the port's close succeeds
modbus_backend_close(b, ok) ==
    IF b.hinst = NULL THEN Returned(b, b, "close", 0, <<>>, 0)
    ELSE IF ~ok THEN Returned(b, b, "close", -1, <<"close">>, 0)
    ELSE Returned(b, [b EXCEPT !.hinst = NULL, !.held = @ \ {b.hinst},
                               !.rxq = <<>>],
                  "close", 0, <<"close">>, 0)

\* modbus_backend_destory: modbus_backend_close, whose result is dropped,
\* then free(backend); ok is whether the port's close succeeds
modbus_backend_destory(b, ok) ==
    [modbus_backend_close(b, ok) EXCEPT !.pc = "freed", !.op = "destory"]

modbus_backend_timeout_config(b, ack_tmo_ms, byte_tmo_ms) ==
    Returned(b, [b EXCEPT !.ack_tmo_ms = ack_tmo_ms,
                          !.byte_tmo_ms = byte_tmo_ms],
             "timeout_config", 0, <<>>, 0)

\* modbus_backend_write handing the buffer to the port while the backend is
\* closed
modbus_backend_write_Unopened(b, size, w) ==
    IF size <= 0 THEN Returned(b, b, "write", -1, <<>>, 0)
    ELSE Returned(b, b, "write", w, <<"write">>, 0)

\* modbus_backend_write; w is what the port's write returns
modbus_backend_write(b, size, w) ==
    IF size <= 0 \/ b.hinst = NULL THEN Returned(b, b, "write", -1, <<>>, 0)
    ELSE Returned(b, b, "write", w, <<"write">>, 0)

\* modbus_backend_flush; ok is whether the port's reads succeed
modbus_backend_flush(b, ok) ==
    IF b.hinst = NULL THEN Returned(b, b, "flush", -1, <<>>, 0)
    ELSE IF ~ok THEN Returned(b, b, "flush", -1, <<"flush">>, 0)
    ELSE Returned(b, [b EXCEPT !.rxq = <<>>], "flush", 0, <<"flush">>, 0)

\* modbus_backend_read up to its loop
ReadEnter(b, bufsize) ==
    IF bufsize <= 0 \/ b.hinst = NULL
    THEN Returned(b, [b EXCEPT !.got = <<>>, !.bufsize = bufsize, !.taken = 0,
                               !.err = FALSE],
                  "read", -1, <<>>, 0)
    ELSE [b EXCEPT !.pc = "read", !.op = "read", !.was = b.hinst,
                   !.pcalls = <<>>, !.run = 0, !.calls = @ + 1,
                   !.bufsize = bufsize, !.pos = 0, !.buf = <<>>, !.el = 0,
                   !.fedAt = b.fed, !.taken = 0, !.quiet = 0, !.seen = -1,
                   !.err = FALSE]

\* return(pos) and return(-1) of modbus_backend_read
ReadReturn(b, ret) ==
    [b EXCEPT !.pc = "idle", !.ret = ret, !.got = b.buf,
              !.rets = IF ret > 0 THEN Append(@, b.buf) ELSE @]

\* the two frames the peer sends, byte by byte
FrameOf(n) == [k \in 1..MaxFrame |-> n]

\* what the observer notes at a poll that finds the port empty
Observed(b) ==
    [b EXCEPT !.seen = b.quiet,
              !.sep = @ \/ (/\ b.fedAt = 0
                            /\ b.inner = 0
                            /\ b.fed = MaxFrame
                            /\ b.buf = FrameOf(1)
                            /\ b.quiet > b.byte_tmo_ms)]

\* modbus_port_delay_ms(d)
Delayed(b, d) ==
    [b EXCEPT !.el = @ + d, !.quiet = @ + d,
              !.gap = Min(@ + d, MaxGap)]

\* the port's read hands over the n bytes it has, up to the room left
Took(b, n) ==
    [b EXCEPT !.buf = @ \o SubSeq(b.rxq, 1, n),
              !.rxq = SubSeqFrom(b.rxq, n + 1),
              !.taken = @ + n, !.quiet = 0, !.seen = -1,
              !.pcalls = <<"read">>]

\* ReadLoop taking the time of every poll, also of one that finds the port
\* empty, for the time of the last byte: the time measured is that of the
\* last delay alone
ReadLoop_RestartOnEmpty(b, n, perr, d) ==
    IF perr THEN ReadReturn([b EXCEPT !.err = TRUE], -1)
    ELSE IF n > 0
    THEN IF b.pos + n < b.bufsize
         THEN [Took(b, n) EXCEPT !.pos = @ + n, !.el = 0]
         ELSE ReadReturn([Took(b, n) EXCEPT !.pos = @ + n, !.el = 0], b.pos + n)
    ELSE IF b.pos > 0 /\ b.el > b.byte_tmo_ms THEN ReadReturn(Observed(b), b.pos)
    ELSE IF b.pos = 0 /\ b.el > b.ack_tmo_ms THEN ReadReturn(Observed(b), b.pos)
    ELSE [Delayed(Observed(b), d) EXCEPT !.el = d, !.quiet = Min(@, MaxGap)]

\* ReadLoop returning the bytes it has when the port fails
ReadLoop_PartialOnError(b, n, perr, d) ==
    IF perr THEN ReadReturn([b EXCEPT !.err = TRUE],
                            IF b.pos > 0 THEN b.pos ELSE -1)
    ELSE IF n > 0
    THEN IF b.pos + n < b.bufsize
         THEN [Took(b, n) EXCEPT !.pos = @ + n, !.el = 0]
         ELSE ReadReturn([Took(b, n) EXCEPT !.pos = @ + n, !.el = 0], b.pos + n)
    ELSE IF b.pos > 0 /\ b.el > b.byte_tmo_ms THEN ReadReturn(Observed(b), b.pos)
    ELSE IF b.pos = 0 /\ b.el > b.ack_tmo_ms THEN ReadReturn(Observed(b), b.pos)
    ELSE Delayed(Observed(b), d)

\* ReadLoop keeping the silence timer running over the chunks received
ReadLoop_NoRestart(b, n, perr, d) ==
    IF perr THEN ReadReturn([b EXCEPT !.err = TRUE], -1)
    ELSE IF n > 0
    THEN IF b.pos + n < b.bufsize
         THEN [Took(b, n) EXCEPT !.pos = @ + n]
         ELSE ReadReturn([Took(b, n) EXCEPT !.pos = @ + n], b.pos + n)
    ELSE IF b.pos > 0 /\ b.el > b.byte_tmo_ms THEN ReadReturn(Observed(b), b.pos)
    ELSE IF b.pos = 0 /\ b.el > b.ack_tmo_ms THEN ReadReturn(Observed(b), b.pos)
    ELSE Delayed(Observed(b), d)

\* ReadLoop waiting for ack_tmo_ms whether or not bytes have arrived
ReadLoop_AckOnly(b, n, perr, d) ==
    IF perr THEN ReadReturn([b EXCEPT !.err = TRUE], -1)
    ELSE IF n > 0
    THEN IF b.pos + n < b.bufsize
         THEN [Took(b, n) EXCEPT !.pos = @ + n, !.el = 0]
         ELSE ReadReturn([Took(b, n) EXCEPT !.pos = @ + n, !.el = 0], b.pos + n)
    ELSE IF b.el > b.ack_tmo_ms THEN ReadReturn(Observed(b), b.pos)
    ELSE Delayed(Observed(b), d)

\* one turn of the loop of modbus_backend_read: the port's read finds n
\* bytes, or fails if perr; an empty port is followed by the timeout tests
\* and modbus_port_delay_ms(2), which takes d ms
ReadLoop(b, n, perr, d) ==
    IF perr THEN ReadReturn([b EXCEPT !.err = TRUE], -1)
    ELSE IF n > 0
    THEN IF b.pos + n < b.bufsize
         THEN [Took(b, n) EXCEPT !.pos = @ + n, !.el = 0]
         ELSE ReadReturn([Took(b, n) EXCEPT !.pos = @ + n, !.el = 0], b.pos + n)
    ELSE IF b.pos > 0 /\ b.el > b.byte_tmo_ms THEN ReadReturn(Observed(b), b.pos)
    ELSE IF b.pos = 0 /\ b.el > b.ack_tmo_ms THEN ReadReturn(Observed(b), b.pos)
    ELSE Delayed(Observed(b), d)

\* the peer puts the next k bytes on the line
Fed(b, k) ==
    [b EXCEPT !.rxq = @ \o [i \in 1..k |-> IF b.fed < MaxFrame THEN 1 ELSE 2],
              !.fed = @ + k,
              !.gap = 0,
              !.inner = IF b.fed \in {0, MaxFrame} THEN @
                        ELSE IF b.gap > @ THEN b.gap ELSE @,
              !.idle12 = IF b.fed = MaxFrame THEN b.gap ELSE @]

-----------------------------------------------------------------------------
(* Master transaction core (modbus_master.c).                               *)
(*                                                                         *)
(* h is the instance: [prototype, saddr, tsid, tid].  e is what the         *)
(* transport does during the call: e.slen is how modbus_send answers        *)
(* ("ok" the whole frame, "short" one byte less, "err" -1), e.rlen how      *)
(* modbus_recv answers ("frame" the bytes e.rx, "tmo" 0, "err" -1), and     *)
(* e.garb is the value an indeterminate read yields (a field of the frame   *)
(* structure that no one has written, or a union variant other than the     *)
(* stored one).                                                             *)

SendLen(e, flen) ==
    IF e.slen = "ok" THEN flen ELSE IF e.slen = "short" THEN flen - 1 ELSE -1

RecvLen(e) ==
    IF e.rlen = "frame" THEN Len(e.rx) ELSE IF e.rlen = "tmo" THEN 0 ELSE -1

\* what one transaction leaves behind: the stage it returned at, the value
\* returned so far, the frame handed to modbus_send, the transport calls
\* made, whether the frame parser ran and what it returned, the parsed
\* frame structure, and the transaction counter after the call
Xfer(stage, ret, tx, io, parsed, plen, frm, t) ==
    [stage |-> stage, ret |-> ret, tx |-> tx, io |-> io, parsed |-> parsed,
     plen |-> plen, frm |-> frm, tsid |-> t]

\* a union field of the parsed PDU: indeterminate when the parser stored nothing
Field(x, v, e) == IF x.plen = 0 THEN e.garb ELSE v

\* RtuSteps reading whatever the write returned
RtuSteps_ReadAnyway(h, e, frm0, buf, p) ==
    IF RecvLen(e) <= 0
    THEN Xfer("recv", 0, buf, <<"write", "read">>, FALSE, 0, frm0, h.tsid)
    ELSE IF p.len <= 0
    THEN Xfer("parse", 0, buf, <<"write", "read">>, TRUE, p.len, p.out, h.tsid)
    ELSE IF cfg.addr_chk /\ p.out.saddr # h.saddr
    THEN Xfer("addr", 0, buf, <<"write", "read">>, TRUE, p.len, p.out, h.tsid)
    ELSE IF MODBUS_FC_EXCEPT_CHK(p.out.pdu.fc)
    THEN Xfer("exc", 0 - p.out.pdu.ec, buf, <<"write", "read">>, TRUE, p.len,
              p.out, h.tsid)
    ELSE Xfer("ok", 0, buf, <<"write", "read">>, TRUE, p.len, p.out, h.tsid)

\* the steps every RTU operation shares after the request frame frm0 has
\* been made into buf: send, receive, parse (p is what the parser returns on
\* the received bytes), address check, exception check
RtuSteps(h, e, frm0, buf, p) ==
    IF SendLen(e, Len(buf)) # Len(buf)
    THEN Xfer("send", 0, buf, <<"write">>, FALSE, 0, frm0, h.tsid)
    ELSE IF RecvLen(e) <= 0
    THEN Xfer("recv", 0, buf, <<"write", "read">>, FALSE, 0, frm0, h.tsid)
    ELSE IF p.len <= 0
    THEN Xfer("parse", 0, buf, <<"write", "read">>, TRUE, p.len, p.out, h.tsid)
    ELSE IF cfg.addr_chk /\ p.out.saddr # h.saddr
    THEN Xfer("addr", 0, buf, <<"write", "read">>, TRUE, p.len, p.out, h.tsid)
    ELSE IF MODBUS_FC_EXCEPT_CHK(p.out.pdu.fc)
    THEN Xfer("exc", 0 - p.out.pdu.ec, buf, <<"write", "read">>, TRUE, p.len,
              p.out, h.tsid)
    ELSE Xfer("ok", 0, buf, <<"write", "read">>, TRUE, p.len, p.out, h.tsid)

RtuFrm(h, frm0, e) ==
    RtuSteps(h, e, frm0, modbus_rtu_frame_make(frm0, MB_PDU_TYPE_REQ),
             modbus_rtu_frame_parse(e.rx, frm0, MB_PDU_TYPE_RSP))

\* the part every RTU operation shares: make, send, receive, parse, address
\* check, exception check
MasterRtuXfer(h, pdu, e) == RtuFrm(h, [saddr |-> h.saddr, pdu |-> pdu], e)

\* TcpSteps going on after a receive that returned 0
TcpSteps_RecvNegative(h, e, t, frm0, buf, p) ==
    IF SendLen(e, Len(buf)) # Len(buf)
    THEN Xfer("send", 0, buf, <<"write">>, FALSE, 0, frm0, t)
    ELSE IF RecvLen(e) < 0
    THEN Xfer("recv", 0, buf, <<"write", "read">>, FALSE, 0, frm0, t)
    ELSE IF p.len < 0
    THEN Xfer("parse", 0, buf, <<"write", "read">>, TRUE, p.len, p.out, t)
    ELSE IF cfg.addr_chk /\ p.out.mbap.did # h.saddr
    THEN Xfer("addr", 0, buf, <<"write", "read">>, TRUE, p.len, p.out, t)
    ELSE IF cfg.mbap_chk
            /\ (p.out.mbap.tid # h.tid \/ p.out.mbap.pid # MB_TCP_MBAP_PID
                \/ p.out.mbap.dlen # p.len + 1)
    THEN Xfer("mbap", 0, buf, <<"write", "read">>, TRUE, p.len, p.out, t)
    ELSE IF MODBUS_FC_EXCEPT_CHK(p.out.pdu.fc)
    THEN Xfer("exc", 0 - (IF p.len = 0 THEN e.garb ELSE p.out.pdu.ec), buf,
              <<"write", "read">>, TRUE, p.len, p.out, t)
    ELSE Xfer("ok", 0, buf, <<"write", "read">>, TRUE, p.len, p.out, t)

\* the steps every TCP operation shares after the counter has become t and
\* the request frame frm0 has been made into buf: send, receive, parse,
\* address check, MBAP check, exception check
TcpSteps(h, e, t, frm0, buf, p) ==
    IF SendLen(e, Len(buf)) # Len(buf)
    THEN Xfer("send", 0, buf, <<"write">>, FALSE, 0, frm0, t)
    ELSE IF RecvLen(e) <= 0
    THEN Xfer("recv", 0, buf, <<"write", "read">>, FALSE, 0, frm0, t)
    ELSE IF p.len < 0
    THEN Xfer("parse", 0, buf, <<"write", "read">>, TRUE, p.len, p.out, t)
    ELSE IF cfg.addr_chk /\ p.out.mbap.did # h.saddr
    THEN Xfer("addr", 0, buf, <<"write", "read">>, TRUE, p.len, p.out, t)
    ELSE IF cfg.mbap_chk
            /\ (p.out.mbap.tid # h.tid \/ p.out.mbap.pid # MB_TCP_MBAP_PID
                \/ p.out.mbap.dlen # p.len + 1)
    THEN Xfer("mbap", 0, buf, <<"write", "read">>, TRUE, p.len, p.out, t)
    ELSE IF MODBUS_FC_EXCEPT_CHK(p.out.pdu.fc)
    THEN Xfer("exc", 0 - (IF p.len = 0 THEN e.garb ELSE p.out.pdu.ec), buf,
              <<"write", "read">>, TRUE, p.len, p.out, t)
    ELSE Xfer("ok", 0, buf, <<"write", "read">>, TRUE, p.len, p.out, t)

TcpFrm(h, frm0, e, t) ==
    TcpSteps(h, e, t, frm0, modbus_tcp_frm_make(frm0, MB_PDU_TYPE_REQ),
             modbus_tcp_frm_parse(e.rx, frm0, MB_PDU_TYPE_RSP))

\* hinst->tsid++ and the frame structure of the request; mbap.dlen is not
\* assigned by the caller
TcpCount(h, pdu, e, t) ==
    TcpFrm(h, [mbap |-> [tid |-> t, pid |-> MB_TCP_MBAP_PID, dlen |-> e.garb,
                         did |-> h.saddr],
               pdu |-> pdu], e, t)

\* MasterTcpXfer with a counter wider than 16 bits
MasterTcpXfer_NoWrap(h, pdu, e) == TcpCount(h, pdu, e, h.tsid + 1)

\* the part every TCP operation shares: count, make, send, receive, parse,
\* address check, MBAP check, exception check
MasterTcpXfer(h, pdu, e) == TcpCount(h, pdu, e, (h.tsid + 1) % 65536)

MasterXfer(h, pdu, e) ==
    IF h.prototype = "RTU" THEN MasterRtuXfer(h, pdu, e)
    ELSE MasterTcpXfer(h, pdu, e)

\* the result of a request function: the transaction, the value returned and
\* the bytes or registers stored through the output pointer (<<>>: none)
Done(x, ret, stored) == [x |-> x, ret |-> ret, stored |-> stored]

\* modbus_read_req_rtu / modbus_read_req_tcp: the tail after the exception
\* check copies rd_rsp.dlen bytes to pdata and returns rd_rsp.dlen
ReadReqTail(x, e) ==
    IF x.stage # "ok" THEN Done(x, x.ret, <<>>)
    ELSE Done(x, Field(x, x.frm.pdu.dlen, e),
              Bytes(Field(x, x.frm.pdu.pdata, [garb |-> <<>>]),
                    Field(x, x.frm.pdu.dlen, e)))

modbus_read_req_rtu(h, func, addr, nb, e) ==
    ReadReqTail(MasterRtuXfer(h, [PduZero EXCEPT !.fc = func, !.addr = addr,
                                                 !.nb = nb], e), e)

modbus_read_req_tcp(h, func, addr, nb, e) ==
    ReadReqTail(MasterTcpXfer(h, [PduZero EXCEPT !.fc = func, !.addr = addr,
                                                 !.nb = nb], e), e)

modbus_read_req(h, func, addr, nb, e) ==
    IF h.prototype = "RTU" THEN modbus_read_req_rtu(h, func, addr, nb, e)
    ELSE modbus_read_req_tcp(h, func, addr, nb, e)

\* modbus_write_req_rtu / modbus_write_req_tcp: returns wr_rsp.nb
WriteReqTail(x, e) ==
    IF x.stage # "ok" THEN Done(x, x.ret, <<>>)
    ELSE Done(x, Field(x, x.frm.pdu.nb, e), <<>>)

modbus_write_req(h, func, addr, nb, pdata, dlen, e) ==
    WriteReqTail(MasterXfer(h, [PduZero EXCEPT !.fc = func, !.addr = addr,
                                               !.nb = nb, !.dlen = dlen,
                                               !.pdata = pdata], e), e)

\* modbus_write_single_rtu / modbus_write_single_tcp: returns 1
OneTail(x) == IF x.stage # "ok" THEN Done(x, x.ret, <<>>) ELSE Done(x, 1, <<>>)

modbus_write_single(h, func, addr, val, e) ==
    OneTail(MasterXfer(h, [PduZero EXCEPT !.fc = func, !.addr = addr,
                                          !.val = val], e))

\* the registers of a byte stream, big-endian
RECURSIVE RegsOf(_)
RegsOf(bytes) ==
    IF Len(bytes) < 2 THEN <<>>
    ELSE <<modbus_cvt_u16_get(bytes, 1)>> \o RegsOf(SubSeqFrom(bytes, 3))

\* the byte stream of registers, big-endian
RECURSIVE BytesOf(_)
BytesOf(regs) ==
    IF regs = <<>> THEN <<>>
    ELSE modbus_cvt_u16_put(Head(regs)) \o BytesOf(Tail(regs))

\* the return statement of modbus_read_bits / modbus_read_input_bits after
\* modbus_read_req has returned d
ReadBitsTail(d, nb) ==
    Done(d.x, IF d.ret # (nb + 7) \div 8 THEN d.ret ELSE nb, d.stored)

modbus_read_bits(h, addr, nb, e) ==
    ReadBitsTail(modbus_read_req(h, MODBUS_FC_READ_COILS, addr, nb, e), nb)

modbus_read_input_bits(h, addr, nb, e) ==
    ReadBitsTail(modbus_read_req(h, MODBUS_FC_READ_DISCRETE_INPUTS, addr, nb, e), nb)

\* ReadRegsTail without the test of a non-positive length
ReadRegsTail_NoSignTest(d, nb) ==
    IF d.ret # nb * 2 THEN Done(d.x, 0, <<>>)
    ELSE Done(d.x, nb, RegsOf(Bytes(d.stored, 2 * nb)))

\* the tail of modbus_read_regs / modbus_read_input_regs after modbus_read_req
\* has filled hinst->datas
ReadRegsTail(d, nb) ==
    IF d.ret <= 0 THEN Done(d.x, d.ret, <<>>)
    ELSE IF d.ret # nb * 2 THEN Done(d.x, 0, <<>>)
    ELSE Done(d.x, nb, RegsOf(Bytes(d.stored, 2 * nb)))

modbus_read_regs(h, addr, nb, e) ==
    ReadRegsTail(modbus_read_req(h, MODBUS_FC_READ_HOLDING_REGISTERS, addr, nb, e), nb)

modbus_read_input_regs(h, addr, nb, e) ==
    ReadRegsTail(modbus_read_req(h, MODBUS_FC_READ_INPUT_REGISTERS, addr, nb, e), nb)

modbus_write_bit(h, addr, bit, e) ==
    modbus_write_single(h, MODBUS_FC_WRITE_SINGLE_COIL, addr,
                        IF bit # 0 THEN 65280 ELSE 0, e)

modbus_write_reg(h, addr, val, e) ==
    modbus_write_single(h, MODBUS_FC_WRITE_SINGLE_REGISTER, addr, val, e)

modbus_write_bits(h, addr, nb, pbits, e) ==
    modbus_write_req(h, MODBUS_FC_WRITE_MULTIPLE_COILS, addr, nb, pbits,
                     (nb + 7) \div 8, e)

modbus_write_regs(h, addr, nb, pregs, e) ==
    modbus_write_req(h, MODBUS_FC_WRITE_MULTIPLE_REGISTERS, addr, nb,
                     BytesOf(SubSeq(pregs, 1, nb)), nb * 2, e)

\* modbus_mask_write_rtu / modbus_mask_write_tcp: returns 1
modbus_mask_write_reg(h, addr, mask_and, mask_or, e) ==
    OneTail(MasterXfer(h, [PduZero EXCEPT !.fc = MODBUS_FC_MASK_WRITE_REGISTER,
                                          !.addr = addr, !.val_and = mask_and,
                                          !.val_or = mask_or], e))

\* modbus_write_and_read_regs_rtu / _tcp: the tail after the exception check
\* compares rd_rsp.dlen with rd_nb * 2 and decodes the registers
WriteReadTail(x, rd_nb, e) ==
    IF x.stage # "ok" THEN Done(x, x.ret, <<>>)
    ELSE IF Field(x, x.frm.pdu.dlen, e) # rd_nb * 2 THEN Done(x, 0, <<>>)
    ELSE Done(x, rd_nb,
              RegsOf(Bytes(Field(x, x.frm.pdu.pdata, [garb |-> <<>>]),
                           2 * rd_nb)))

mb_write_and_read_regs(h, wr_addr, wr_nb, p_wr_regs, rd_addr, rd_nb, e) ==
    WriteReadTail(
        MasterXfer(h, [PduZero EXCEPT
                            !.fc = MODBUS_FC_WRITE_AND_READ_REGISTERS,
                            !.rd_addr = rd_addr, !.rd_nb = rd_nb,
                            !.wr_addr = wr_addr, !.wr_nb = wr_nb,
                            !.dlen = wr_nb * 2,
                            !.pdata = BytesOf(SubSeq(p_wr_regs, 1, wr_nb))], e),
        rd_nb, e)

-----------------------------------------------------------------------------
(* The master instance, its callers and its transport                       *)

MaxOps == 2     \* master operations in one run
MaxNb  == 2     \* largest quantity a caller asks for

Garbage == {0, 1, 2}        \* values an indeterminate read may yield
Addrs   == {107}            \* starting addresses the callers use
Values  == {4660, 65535}    \* register values and masks the callers use

\* a slave address other than a
OtherAddr(a) == (a % 247) + 1

\* payload bytes a peer sends
Data(n) == [i \in 1..n |-> (37 * i + 11) % 256]

Instance == [prototype |-> prototype, saddr |-> saddr, tsid |-> tsid, tid |-> tid]

\* The response PDUs a peer may send to the request req, each with a flag
\* saying that the PDU parser rejects it (so that the frame structure keeps
\* indeterminate fields): the right response, one with another count or
\* value, two exceptions, a PDU cut after the function code, an exception
\* cut after the function code, and an unsupported function code.
RspPdus(req) ==
    LET fc   == req.fc
        n    == IF fc \in FcReadBits THEN (req.nb + 7) \div 8
                ELSE IF fc \in FcReadRegs THEN 2 * req.nb
                ELSE 2 * req.rd_nb
        echo == modbus_pdu_make(req, MB_PDU_TYPE_RSP)
        good == IF fc \in FcRead \cup {MODBUS_FC_WRITE_AND_READ_REGISTERS}
                THEN <<fc, n>> \o Data(n) ELSE echo
        off  == IF fc \in FcRead \cup {MODBUS_FC_WRITE_AND_READ_REGISTERS}
                THEN <<fc, n + 2>> \o Data(n + 2)
                ELSE [echo EXCEPT ![5] = (echo[5] + 1) % 256]
    IN  {[pdu |-> good, bad |-> FALSE], [pdu |-> off, bad |-> FALSE],
         [pdu |-> <<fc + 128, MODBUS_EC_ILLEGAL_DATA_ADDRESS>>, bad |-> FALSE],
         [pdu |-> <<fc + 128, MODBUS_EC_SLAVE_OR_SERVER_FAILURE>>, bad |-> FALSE],
         [pdu |-> <<fc>>, bad |-> TRUE],
         [pdu |-> <<fc + 128>>, bad |-> TRUE],
         [pdu |-> <<101, 0>>, bad |-> FALSE]}

\* RTU frames a peer may put on the line in answer to req
RtuFrames(h, req) ==
    LET Frame(a, pdu, crcok) ==
            LET body == <<a>> \o pdu
                crc  == modbus_crc_cal(body)
                c    == IF crcok THEN crc ELSE Xor16(crc, 1)
            IN  body \o <<c % 256, c \div 256>>
    IN  {[rx |-> Frame(a, r.pdu, TRUE), bad |-> r.bad] :
            a \in {h.saddr, OtherAddr(h.saddr)}, r \in RspPdus(req)}
        \cup {[rx |-> Frame(h.saddr, r.pdu, FALSE), bad |-> TRUE] :
                r \in {q \in RspPdus(req) : ~q.bad}}
        \cup {[rx |-> <<h.saddr, req.fc, 0>>, bad |-> TRUE]}

\* TCP frames a peer may send in answer to req, whose request carried TID t:
\* the right header and headers with another TID (the next one, or the value
\* of hinst->tid), PID, DLEN or UID, and a frame shorter than the smallest one
TcpFrames(h, req, t) ==
    LET good == [tid |-> t, pid |-> MB_TCP_MBAP_PID, dd |-> 0, did |-> h.saddr]
        hdrs == {good,
                 [good EXCEPT !.tid = (t + 1) % 65536],
                 [good EXCEPT !.tid = h.tid],
                 [good EXCEPT !.pid = 1],
                 [good EXCEPT !.dd = 1],
                 [good EXCEPT !.did = OtherAddr(h.saddr)],
                 [good EXCEPT !.tid = h.tid, !.did = OtherAddr(h.saddr)]}
        Frame(m, pdu) ==
            modbus_cvt_u16_put(m.tid) \o modbus_cvt_u16_put(m.pid)
                \o modbus_cvt_u16_put(Len(pdu) + 1 + m.dd) \o <<m.did>> \o pdu
    IN  {[rx |-> Frame(m, r.pdu), bad |-> r.bad] : m \in hdrs, r \in RspPdus(req)}
        \cup {[rx |-> SubSeq(Frame(good, <<req.fc>>), 1, 6), bad |-> TRUE]}

\* everything the transport may do during one operation
MasterEnvs(h, req) ==
    LET frames == IF h.prototype = "RTU" THEN RtuFrames(h, req)
                  ELSE TcpFrames(h, req, (h.tsid + 1) % 65536)
    IN  {[slen |-> s, rlen |-> "tmo", rx |-> <<>>, garb |-> 0] :
            s \in {"short", "err"}}
        \cup {[slen |-> "ok", rlen |-> r, rx |-> <<>>, garb |-> 0] :
                r \in {"tmo", "err"}}
        \cup UNION {{[slen |-> "ok", rlen |-> "frame", rx |-> f.rx, garb |-> g] :
                        g \in IF f.bad THEN Garbage ELSE {0}} : f \in frames}

\* no pair of instances has been created
PairIdle == [inst |-> <<>>, wire |-> <<>>]

\* no frame structure has been handed to the codec
CodecIdle == [st |-> "none", frm |-> <<>>, type |-> 0, buf |-> <<>>, flen |-> 0,
              plen |-> 0, out |-> <<>>]

MstIdle ==
    [st |-> "idle", op |-> "none", nb |-> 0, ret |-> 0, stored |-> <<>>,
     stage |-> "none", tx |-> <<>>, io |-> <<>>, parsed |-> FALSE, plen |-> 0,
     frm |-> <<>>, e |-> [slen |-> "ok", rlen |-> "tmo", rx |-> <<>>, garb |-> 0]]

SlvIdle ==
    [st |-> "idle", cb |-> [kind |-> "null", has |-> {}],
     e |-> [conn |-> "ok", rlen |-> "tmo", rx |-> <<>>],
     r |-> [io |-> <<>>,
            d |-> [stage |-> "none", plen |-> 0, frm |-> <<>>, log |-> <<>>,
                   sent |-> <<>>]]]

InitMaster ==
    /\ cfg \in [addr_chk : BOOLEAN, mbap_chk : BOOLEAN]
    /\ prototype \in {"RTU", "TCP"}
    /\ saddr = 1
    /\ ntcp \in {0, 65534}
    /\ tsid = ntcp % 65536
    /\ tid \in {0, 1}
    /\ nops = 0
    /\ mst = MstIdle
    /\ slv = SlvIdle
    /\ bkd = modbus_backend_create("RTU", -1)
    /\ pair = PairIdle
    /\ codec = CodecIdle

\* a master operation op asking for nb items has run to its return with
\* result d while the transport did e
Finish(op, nb, d, e) ==
    /\ mst' = [st |-> "done", op |-> op, nb |-> nb, ret |-> d.ret,
               stored |-> d.stored, stage |-> d.x.stage, tx |-> d.x.tx,
               io |-> d.x.io, parsed |-> d.x.parsed, plen |-> d.x.plen,
               frm |-> d.x.frm, e |-> e]
    /\ tsid' = d.x.tsid
    /\ ntcp' = IF prototype = "TCP" THEN ntcp + 1 ELSE ntcp
    /\ nops' = nops + 1
    /\ UNCHANGED <<cfg, prototype, saddr, tid, slv, bkd, pair, codec>>

CanCall == mst.st = "idle" /\ nops < MaxOps

ReadReq(fc, addr, nb) == [PduZero EXCEPT !.fc = fc, !.addr = addr, !.nb = nb]

ReadBits ==
    /\ CanCall
    /\ \E addr \in Addrs, nb \in 1..MaxNb :
         \E e \in MasterEnvs(Instance, ReadReq(MODBUS_FC_READ_COILS, addr, nb)) :
            Finish("read_bits", nb, modbus_read_bits(Instance, addr, nb, e), e)

ReadInputBits ==
    /\ CanCall
    /\ \E addr \in Addrs, nb \in 1..MaxNb :
         \E e \in MasterEnvs(Instance,
                             ReadReq(MODBUS_FC_READ_DISCRETE_INPUTS, addr, nb)) :
            Finish("read_input_bits", nb,
                   modbus_read_input_bits(Instance, addr, nb, e), e)

ReadRegs ==
    /\ CanCall
    /\ \E addr \in Addrs, nb \in 1..MaxNb :
         \E e \in MasterEnvs(Instance,
                             ReadReq(MODBUS_FC_READ_HOLDING_REGISTERS, addr, nb)) :
            Finish("read_regs", nb, modbus_read_regs(Instance, addr, nb, e), e)

ReadInputRegs ==
    /\ CanCall
    /\ \E addr \in Addrs, nb \in 1..MaxNb :
         \E e \in MasterEnvs(Instance,
                             ReadReq(MODBUS_FC_READ_INPUT_REGISTERS, addr, nb)) :
            Finish("read_input_regs", nb,
                   modbus_read_input_regs(Instance, addr, nb, e), e)

WriteBit ==
    /\ CanCall
    /\ \E addr \in Addrs, bit \in {0, 1} :
         \E e \in MasterEnvs(Instance,
                    [PduZero EXCEPT !.fc = MODBUS_FC_WRITE_SINGLE_COIL,
                                    !.addr = addr,
                                    !.val = IF bit # 0 THEN 65280 ELSE 0]) :
            Finish("write_bit", 1, modbus_write_bit(Instance, addr, bit, e), e)

WriteReg ==
    /\ CanCall
    /\ \E addr \in Addrs, val \in Values :
         \E e \in MasterEnvs(Instance,
                    [PduZero EXCEPT !.fc = MODBUS_FC_WRITE_SINGLE_REGISTER,
                                    !.addr = addr, !.val = val]) :
            Finish("write_reg", 1, modbus_write_reg(Instance, addr, val, e), e)

WriteBits ==
    /\ CanCall
    /\ \E addr \in Addrs, nb \in 1..MaxNb :
         \E e \in MasterEnvs(Instance,
                    [PduZero EXCEPT !.fc = MODBUS_FC_WRITE_MULTIPLE_COILS,
                                    !.addr = addr, !.nb = nb,
                                    !.dlen = (nb + 7) \div 8, !.pdata = <<1>>]) :
            Finish("write_bits", nb,
                   modbus_write_bits(Instance, addr, nb, <<1>>, e), e)

WriteRegs ==
    /\ CanCall
    /\ \E addr \in Addrs, nb \in 1..MaxNb :
         LET pregs == [i \in 1..nb |-> 4660 + i] IN
         \E e \in MasterEnvs(Instance,
                    [PduZero EXCEPT !.fc = MODBUS_FC_WRITE_MULTIPLE_REGISTERS,
                                    !.addr = addr, !.nb = nb, !.dlen = 2 * nb,
                                    !.pdata = BytesOf(pregs)]) :
            Finish("write_regs", nb,
                   modbus_write_regs(Instance, addr, nb, pregs, e), e)

MaskWriteReg ==
    /\ CanCall
    /\ \E addr \in Addrs, mask_and \in Values, mask_or \in {0} :
         \E e \in MasterEnvs(Instance,
                    [PduZero EXCEPT !.fc = MODBUS_FC_MASK_WRITE_REGISTER,
                                    !.addr = addr, !.val_and = mask_and,
                                    !.val_or = mask_or]) :
            Finish("mask_write_reg", 1,
                   modbus_mask_write_reg(Instance, addr, mask_and, mask_or, e), e)

WriteAndReadRegs ==
    /\ CanCall
    /\ \E addr \in Addrs, rd_nb \in 1..MaxNb :
         \E e \in MasterEnvs(Instance,
                    [PduZero EXCEPT !.fc = MODBUS_FC_WRITE_AND_READ_REGISTERS,
                                    !.rd_addr = addr, !.rd_nb = rd_nb,
                                    !.wr_addr = addr, !.wr_nb = 1, !.dlen = 2,
                                    !.pdata = BytesOf(<<4660>>)]) :
            Finish("write_and_read_regs", rd_nb,
                   mb_write_and_read_regs(Instance, addr, 1, <<4660>>, addr,
                                          rd_nb, e), e)

\* the caller takes the result; the instance is ready for the next call
MasterReturn ==
    /\ mst.st = "done"
    /\ mst' = MstIdle
    /\ UNCHANGED <<cfg, prototype, saddr, tsid, tid, ntcp, nops, slv, bkd, pair, codec>>

\* modbus_set_prot: the caller changes the protocol between two operations
modbus_set_prot ==
    /\ mst.st = "idle"
    /\ nops < MaxOps
    /\ \E p \in {"RTU", "TCP"} : p # prototype /\ prototype' = p
    /\ UNCHANGED <<cfg, saddr, tsid, tid, ntcp, nops, mst, slv, bkd, pair, codec>>

NextMaster ==
    \/ ReadBits
    \/ ReadInputBits
    \/ ReadRegs
    \/ ReadInputRegs
    \/ WriteBit
    \/ WriteReg
    \/ WriteBits
    \/ WriteRegs
    \/ MaskWriteReg
    \/ WriteAndReadRegs
    \/ MasterReturn
    \/ modbus_set_prot

SpecMaster == InitMaster /\ [][NextMaster]_vars

-----------------------------------------------------------------------------
(* Slave dispatch core (modbus_slave.c).                                    *)
(*                                                                         *)
(* c is hinst->cb: c.kind is "null" (no table), "weak" (mb_cb_table, whose  *)
(* functions all return -2) or "user" (a table of the application with the  *)
(* entries c.has).  u is what the application's callbacks do during one     *)
(* step: the u.failAt-th callback invoked returns -u.failCode (none when    *)
(* u.failAt is 0) and the device holds u.mem.  A handler returns the PDU    *)
(* structure it leaves and the callbacks it invoked, in order.              *)

CbNames ==
    {"read_disc", "read_coil", "write_coil", "read_input", "read_hold",
     "write_hold"}

\* hinst->cb->name is not NULL
Has(c, name) == c.kind # "null" /\ name \in c.has

Call(cb, addr, val, rst) == [cb |-> cb, addr |-> addr, val |-> val, rst |-> rst]

\* what the next callback returns
CbRst(c, u, log) ==
    IF c.kind = "weak" THEN -2
    ELSE IF Len(log) + 1 = u.failAt THEN 0 - u.failCode
    ELSE 0

\* the value the device holds at address a before the step
DevVal(u, cb, a) ==
    IF cb \in {"read_coil", "read_disc"} THEN (u.mem + a) % 2
    ELSE (u.mem + 257 * a) % 65536

\* the calls of log that stored a value read back by cb at address a
Stores(log, cb, a) ==
    {k \in 1..Len(log) :
        /\ log[k].addr = a
        /\ log[k].rst = 0
        /\ \/ cb = "read_hold" /\ log[k].cb = "write_hold"
           \/ cb = "read_coil" /\ log[k].cb = "write_coil"}

Last(S) == CHOOSE k \in S : \A j \in S : j <= k

\* the value a read callback yields at address a
CbVal(u, log, cb, a) ==
    IF Stores(log, cb, a) = {} THEN DevVal(u, cb, a)
    ELSE log[Last(Stores(log, cb, a))].val

\* the state of a handler's loop: the last result, the callbacks invoked and
\* the values read
Loop(rst, log, vals) == [rst |-> rst, log |-> log, vals |-> vals]

\* ReadItems handing addr + i to a callback that takes an int
RECURSIVE ReadItems_NoWrap(_, _, _, _, _, _, _)
ReadItems_NoWrap(c, u, cb, addr, nb, i, s) ==
    IF i >= nb THEN s
    ELSE IF CbRst(c, u, s.log) < 0
    THEN Loop(CbRst(c, u, s.log),
              Append(s.log, Call(cb, addr + i, 0, CbRst(c, u, s.log))),
              s.vals)
    ELSE ReadItems_NoWrap(c, u, cb, addr, nb, i + 1,
            Loop(0,
                 Append(s.log, Call(cb, addr + i, CbVal(u, s.log, cb, addr + i), 0)),
                 Append(s.vals, CbVal(u, s.log, cb, addr + i))))

\* for (i = 0; i < nb; i++) { rst = cb(addr + i, &val); if (rst < 0) return; }
RECURSIVE ReadItems(_, _, _, _, _, _, _)
ReadItems(c, u, cb, addr, nb, i, s) ==
    IF i >= nb THEN s
    ELSE IF CbRst(c, u, s.log) < 0
    THEN Loop(CbRst(c, u, s.log),
              Append(s.log, Call(cb, (addr + i) % 65536, 0, CbRst(c, u, s.log))),
              s.vals)
    ELSE ReadItems(c, u, cb, addr, nb, i + 1,
            Loop(0,
                 Append(s.log, Call(cb, (addr + i) % 65536,
                                    CbVal(u, s.log, cb, (addr + i) % 65536), 0)),
                 Append(s.vals, CbVal(u, s.log, cb, (addr + i) % 65536))))

\* WriteItems going on to the next item after a callback has failed
RECURSIVE WriteItems_GoOn(_, _, _, _, _, _, _, _)
WriteItems_GoOn(c, u, cb, addr, nb, i, vals, s) ==
    IF i >= nb THEN s
    ELSE WriteItems_GoOn(c, u, cb, addr, nb, i + 1, vals,
            Loop(IF s.rst < 0 THEN s.rst ELSE CbRst(c, u, s.log),
                 Append(s.log, Call(cb, (addr + i) % 65536, vals[i + 1],
                                    CbRst(c, u, s.log))),
                 s.vals))

\* for (i = 0; i < nb; i++) { rst = cb(addr + i, vals[i]); if (rst < 0) return; }
RECURSIVE WriteItems(_, _, _, _, _, _, _, _)
WriteItems(c, u, cb, addr, nb, i, vals, s) ==
    IF i >= nb THEN s
    ELSE IF CbRst(c, u, s.log) < 0
    THEN Loop(CbRst(c, u, s.log),
              Append(s.log, Call(cb, (addr + i) % 65536, vals[i + 1],
                                 CbRst(c, u, s.log))),
              s.vals)
    ELSE WriteItems(c, u, cb, addr, nb, i + 1, vals,
            Loop(0, Append(s.log, Call(cb, (addr + i) % 65536, vals[i + 1], 0)),
                 s.vals))

\* memset(hinst->datas, 0, ...) and modbus_bitmap_set(hinst->datas, i, bit)
\* for every bit read
RECURSIVE PackBits(_, _, _)
PackBits(datas, bits, i) ==
    IF i >= Len(bits) THEN datas
    ELSE PackBits(modbus_bitmap_set(datas, i, bits[i + 1]), bits, i + 1)

\* modbus_bitmap_get(pbits, i) for i < nb
UnpackBits(pbits, nb) == [k \in 1..nb |-> modbus_bitmap_get(pbits, k - 1)]

\* pdu->exc.ec = ec; pdu->exc.fc = MODBUS_FC_EXCEPT_MAKE(pdu->exc.fc)
Exc(pdu, ec) == [pdu EXCEPT !.ec = ec % 256, !.fc = MODBUS_FC_EXCEPT_MAKE(pdu.fc)]

Dealt(pdu, log) == [pdu |-> pdu, log |-> log]

\* ReadBitsEnd packing into a buffer that was not cleared
ReadBitsEnd_NoMemset(pdu, s) ==
    IF s.rst < 0 THEN Dealt(Exc(pdu, 0 - s.rst), s.log)
    ELSE Dealt([pdu EXCEPT !.dlen = (pdu.nb + 7) \div 8,
                           !.pdata = PackBits([k \in 1..((pdu.nb + 7) \div 8) |-> 255],
                                              s.vals, 0)],
               s.log)

\* the end of the two bit-reading handlers
ReadBitsEnd(pdu, s) ==
    IF s.rst < 0 THEN Dealt(Exc(pdu, 0 - s.rst), s.log)
    ELSE Dealt([pdu EXCEPT !.dlen = (pdu.nb + 7) \div 8,
                           !.pdata = PackBits([k \in 1..((pdu.nb + 7) \div 8) |-> 0],
                                              s.vals, 0)],
               s.log)

\* the end of the two register-reading handlers
ReadRegsEnd(pdu, nb, s) ==
    IF s.rst < 0 THEN Dealt(Exc(pdu, 0 - s.rst), s.log)
    ELSE Dealt([pdu EXCEPT !.dlen = 2 * nb, !.pdata = BytesOf(s.vals)], s.log)

\* WriteEnd answering with the echo whatever the callbacks returned
WriteEnd_IgnoreRst(pdu, s) == Dealt(pdu, s.log)

\* the end of the writing handlers: the request structure is the response
WriteEnd(pdu, s) ==
    IF s.rst < 0 THEN Dealt(Exc(pdu, 0 - s.rst), s.log) ELSE Dealt(pdu, s.log)

modbus_slave_pdu_deal_read_coils(c, u, pdu) ==
    IF ~Has(c, "read_coil")
    THEN Dealt(Exc(pdu, MODBUS_EC_SLAVE_OR_SERVER_FAILURE), <<>>)
    ELSE ReadBitsEnd(pdu, ReadItems(c, u, "read_coil", pdu.addr, pdu.nb, 0,
                                    Loop(0, <<>>, <<>>)))

modbus_slave_pdu_deal_read_discs(c, u, pdu) ==
    IF ~Has(c, "read_disc")
    THEN Dealt(Exc(pdu, MODBUS_EC_SLAVE_OR_SERVER_FAILURE), <<>>)
    ELSE ReadBitsEnd(pdu, ReadItems(c, u, "read_disc", pdu.addr, pdu.nb, 0,
                                    Loop(0, <<>>, <<>>)))

modbus_slave_pdu_deal_read_holds(c, u, pdu) ==
    IF ~Has(c, "read_hold")
    THEN Dealt(Exc(pdu, MODBUS_EC_SLAVE_OR_SERVER_FAILURE), <<>>)
    ELSE ReadRegsEnd(pdu, pdu.nb,
                     ReadItems(c, u, "read_hold", pdu.addr, pdu.nb, 0,
                               Loop(0, <<>>, <<>>)))

modbus_slave_pdu_deal_read_inputs(c, u, pdu) ==
    IF ~Has(c, "read_input")
    THEN Dealt(Exc(pdu, MODBUS_EC_SLAVE_OR_SERVER_FAILURE), <<>>)
    ELSE ReadRegsEnd(pdu, pdu.nb,
                     ReadItems(c, u, "read_input", pdu.addr, pdu.nb, 0,
                               Loop(0, <<>>, <<>>)))

\* the write-single-coil handler taking every non-zero value for ON
modbus_slave_pdu_deal_write_coil_AnyValue(c, u, pdu) ==
    IF ~Has(c, "write_coil")
    THEN Dealt(Exc(pdu, MODBUS_EC_SLAVE_OR_SERVER_FAILURE), <<>>)
    ELSE WriteEnd(pdu, WriteItems(c, u, "write_coil", pdu.addr, 1, 0,
                                  <<IF pdu.val # 0 THEN 1 ELSE 0>>,
                                  Loop(0, <<>>, <<>>)))

modbus_slave_pdu_deal_write_coil(c, u, pdu) ==
    IF ~Has(c, "write_coil")
    THEN Dealt(Exc(pdu, MODBUS_EC_SLAVE_OR_SERVER_FAILURE), <<>>)
    ELSE IF pdu.val # 65280 /\ pdu.val # 0
    THEN Dealt(Exc(pdu, MODBUS_EC_ILLEGAL_DATA_VALUE), <<>>)
    ELSE WriteEnd(pdu, WriteItems(c, u, "write_coil", pdu.addr, 1, 0,
                                  <<IF pdu.val # 0 THEN 1 ELSE 0>>,
                                  Loop(0, <<>>, <<>>)))

modbus_slave_pdu_deal_write_reg(c, u, pdu) ==
    IF ~Has(c, "write_hold")
    THEN Dealt(Exc(pdu, MODBUS_EC_SLAVE_OR_SERVER_FAILURE), <<>>)
    ELSE WriteEnd(pdu, WriteItems(c, u, "write_hold", pdu.addr, 1, 0,
                                  <<pdu.val>>, Loop(0, <<>>, <<>>)))

modbus_slave_pdu_deal_write_coils(c, u, pdu) ==
    IF ~Has(c, "write_coil")
    THEN Dealt(Exc(pdu, MODBUS_EC_SLAVE_OR_SERVER_FAILURE), <<>>)
    ELSE WriteEnd(pdu, WriteItems(c, u, "write_coil", pdu.addr, pdu.nb, 0,
                                  UnpackBits(pdu.pdata, pdu.nb),
                                  Loop(0, <<>>, <<>>)))

modbus_slave_pdu_deal_write_regs(c, u, pdu) ==
    IF ~Has(c, "write_hold")
    THEN Dealt(Exc(pdu, MODBUS_EC_SLAVE_OR_SERVER_FAILURE), <<>>)
    ELSE WriteEnd(pdu, WriteItems(c, u, "write_hold", pdu.addr, pdu.nb, 0,
                                  RegsOf(Bytes(pdu.pdata, 2 * pdu.nb)),
                                  Loop(0, <<>>, <<>>)))

\* MaskWriteEnd setting the bits of or_mask whatever and_mask says
MaskWriteEnd_OrUnmasked(c, u, pdu, s) ==
    IF s.rst < 0 THEN Dealt(Exc(pdu, 0 - s.rst), s.log)
    ELSE WriteEnd(pdu,
            WriteItems(c, u, "write_hold", pdu.addr, 1, 0,
                       <<Or16(And16(s.vals[1], pdu.val_and), pdu.val_or)>>,
                       s))

\* the second half of the mask-write handler, after read_hold has returned s
MaskWriteEnd(c, u, pdu, s) ==
    IF s.rst < 0 THEN Dealt(Exc(pdu, 0 - s.rst), s.log)
    ELSE WriteEnd(pdu,
            WriteItems(c, u, "write_hold", pdu.addr, 1, 0,
                       <<Or16(And16(s.vals[1], pdu.val_and),
                              And16(pdu.val_or, Not16(pdu.val_and)))>>,
                       s))

\* the mask-write handler testing only the callback it invokes first
modbus_slave_pdu_deal_mask_write_reg_ReadTested(c, u, pdu) ==
    IF ~Has(c, "read_hold")
    THEN Dealt(Exc(pdu, MODBUS_EC_SLAVE_OR_SERVER_FAILURE), <<>>)
    ELSE IF ~Has(c, "write_hold")
    THEN Dealt(Exc(pdu, MODBUS_EC_SLAVE_OR_SERVER_FAILURE),
               ReadItems(c, u, "read_hold", pdu.addr, 1, 0,
                         Loop(0, <<>>, <<>>)).log)
    ELSE MaskWriteEnd(c, u, pdu,
                      ReadItems(c, u, "read_hold", pdu.addr, 1, 0,
                                Loop(0, <<>>, <<>>)))

modbus_slave_pdu_deal_mask_write_reg(c, u, pdu) ==
    IF ~Has(c, "read_hold") \/ ~Has(c, "write_hold")
    THEN Dealt(Exc(pdu, MODBUS_EC_SLAVE_OR_SERVER_FAILURE), <<>>)
    ELSE MaskWriteEnd(c, u, pdu,
                      ReadItems(c, u, "read_hold", pdu.addr, 1, 0,
                                Loop(0, <<>>, <<>>)))

\* the second half of the write-and-read handler, after the writes returned s
WriteReadEnd(c, u, pdu, s) ==
    IF s.rst < 0 THEN Dealt(Exc(pdu, 0 - s.rst), s.log)
    ELSE ReadRegsEnd(pdu, pdu.rd_nb,
                     ReadItems(c, u, "read_hold", pdu.rd_addr, pdu.rd_nb, 0,
                               Loop(0, s.log, <<>>)))

\* the write-and-read handler reading the registers before it writes
modbus_slave_pdu_deal_write_and_read_regs_ReadFirst(c, u, pdu) ==
    IF ~Has(c, "read_hold") \/ ~Has(c, "write_hold")
    THEN Dealt(Exc(pdu, MODBUS_EC_SLAVE_OR_SERVER_FAILURE), <<>>)
    ELSE ReadRegsEnd(pdu, pdu.rd_nb,
            WriteItems(c, u, "write_hold", pdu.wr_addr, pdu.wr_nb, 0,
                       RegsOf(Bytes(pdu.pdata, 2 * pdu.wr_nb)),
                       ReadItems(c, u, "read_hold", pdu.rd_addr, pdu.rd_nb, 0,
                                 Loop(0, <<>>, <<>>))))

modbus_slave_pdu_deal_write_and_read_regs(c, u, pdu) ==
    IF ~Has(c, "read_hold") \/ ~Has(c, "write_hold")
    THEN Dealt(Exc(pdu, MODBUS_EC_SLAVE_OR_SERVER_FAILURE), <<>>)
    ELSE WriteReadEnd(c, u, pdu,
                      WriteItems(c, u, "write_hold", pdu.wr_addr, pdu.wr_nb, 0,
                                 RegsOf(Bytes(pdu.pdata, 2 * pdu.wr_nb)),
                                 Loop(0, <<>>, <<>>)))

modbus_slave_pdu_deal(c, u, pdu) ==
    CASE pdu.fc = MODBUS_FC_READ_COILS -> modbus_slave_pdu_deal_read_coils(c, u, pdu)
      [] pdu.fc = MODBUS_FC_READ_DISCRETE_INPUTS ->
            modbus_slave_pdu_deal_read_discs(c, u, pdu)
      [] pdu.fc = MODBUS_FC_READ_HOLDING_REGISTERS ->
            modbus_slave_pdu_deal_read_holds(c, u, pdu)
      [] pdu.fc = MODBUS_FC_READ_INPUT_REGISTERS ->
            modbus_slave_pdu_deal_read_inputs(c, u, pdu)
      [] pdu.fc = MODBUS_FC_WRITE_SINGLE_COIL ->
            modbus_slave_pdu_deal_write_coil(c, u, pdu)
      [] pdu.fc = MODBUS_FC_WRITE_SINGLE_REGISTER ->
            modbus_slave_pdu_deal_write_reg(c, u, pdu)
      [] pdu.fc = MODBUS_FC_WRITE_MULTIPLE_COILS ->
            modbus_slave_pdu_deal_write_coils(c, u, pdu)
      [] pdu.fc = MODBUS_FC_WRITE_MULTIPLE_REGISTERS ->
            modbus_slave_pdu_deal_write_regs(c, u, pdu)
      [] pdu.fc = MODBUS_FC_MASK_WRITE_REGISTER ->
            modbus_slave_pdu_deal_mask_write_reg(c, u, pdu)
      [] pdu.fc = MODBUS_FC_WRITE_AND_READ_REGISTERS ->
            modbus_slave_pdu_deal_write_and_read_regs(c, u, pdu)
      [] OTHER -> Dealt(pdu, <<>>)

\* what one call of modbus_slave_recv_deal leaves behind: the stage it
\* returned at, the result of the frame parser, the frame structure, the
\* callbacks invoked and the frames handed to modbus_send
Deal(stage, p, frm, log, sent) ==
    [stage |-> stage, plen |-> p.len, frm |-> frm, log |-> log, sent |-> sent]

\* modbus_rtu_frame_make(hinst->buf, &frm, MB_PDU_TYPE_RSP); modbus_send(...)
RtuRespond(stage, p, d) ==
    Deal(stage, p, [saddr |-> p.out.saddr, pdu |-> d.pdu], d.log,
         <<modbus_rtu_frame_make([saddr |-> p.out.saddr, pdu |-> d.pdu],
                                 MB_PDU_TYPE_RSP)>>)

\* RtuDeal testing the function code before the address
RtuDeal_UnsupportedFirst(h, u, p) ==
    IF p.len = 0 THEN Deal("parse", p, p.out, <<>>, <<>>)
    ELSE IF p.len < 0
    THEN RtuRespond("unsupported", p,
                    Dealt(Exc(p.out.pdu, MODBUS_EC_ILLEGAL_FUNCTION), <<>>))
    ELSE IF cfg.addr_chk /\ p.out.saddr # h.saddr
    THEN Deal("addr", p, p.out, <<>>, <<>>)
    ELSE RtuRespond("dealt", p, modbus_slave_pdu_deal(h.cb, u, p.out.pdu))

\* RtuDeal answering a malformed frame like an unsupported function code
RtuDeal_ZeroAsUnsupported(h, u, p) ==
    IF cfg.addr_chk /\ p.len # 0 /\ p.out.saddr # h.saddr
    THEN Deal("addr", p, p.out, <<>>, <<>>)
    ELSE IF p.len <= 0
    THEN RtuRespond("unsupported", p,
                    Dealt(Exc(p.out.pdu, MODBUS_EC_ILLEGAL_FUNCTION), <<>>))
    ELSE RtuRespond("dealt", p, modbus_slave_pdu_deal(h.cb, u, p.out.pdu))

\* RtuDeal dispatching a PDU whatever the frame parser returned
RtuDeal_DispatchUnsupported(h, u, p) ==
    IF p.len = 0 THEN Deal("parse", p, p.out, <<>>, <<>>)
    ELSE IF cfg.addr_chk /\ p.out.saddr # h.saddr
    THEN Deal("addr", p, p.out, <<>>, <<>>)
    ELSE RtuRespond("dealt", p, modbus_slave_pdu_deal(h.cb, u, p.out.pdu))

\* modbus_slave_recv_deal_rtu after the frame parser has returned p
RtuDeal(h, u, p) ==
    IF p.len = 0 THEN Deal("parse", p, p.out, <<>>, <<>>)
    ELSE IF cfg.addr_chk /\ p.out.saddr # h.saddr
    THEN Deal("addr", p, p.out, <<>>, <<>>)
    ELSE IF p.len < 0
    THEN RtuRespond("unsupported", p,
                    Dealt(Exc(p.out.pdu, MODBUS_EC_ILLEGAL_FUNCTION), <<>>))
    ELSE RtuRespond("dealt", p, modbus_slave_pdu_deal(h.cb, u, p.out.pdu))

\* the frame structure before the parser fills it
RtuFrm0 == [saddr |-> 0, pdu |-> PduZero]
TcpFrm0 == [mbap |-> [tid |-> 0, pid |-> 0, dlen |-> 0, did |-> 0], pdu |-> PduZero]

modbus_slave_recv_deal_rtu(h, buf, u) ==
    RtuDeal(h, u, modbus_rtu_frame_parse(buf, RtuFrm0, MB_PDU_TYPE_REQ))

\* TcpRespond with a header of its own in place of the request's
TcpRespond_FreshMbap(stage, p, d) ==
    Deal(stage, p, [mbap |-> TcpFrm0.mbap, pdu |-> d.pdu], d.log,
         <<modbus_tcp_frm_make([mbap |-> TcpFrm0.mbap, pdu |-> d.pdu],
                               MB_PDU_TYPE_RSP)>>)

\* modbus_tcp_frm_make(hinst->buf, &frm, MB_PDU_TYPE_RSP); modbus_send(...)
TcpRespond(stage, p, d) ==
    Deal(stage, p, [mbap |-> p.out.mbap, pdu |-> d.pdu], d.log,
         <<modbus_tcp_frm_make([mbap |-> p.out.mbap, pdu |-> d.pdu],
                               MB_PDU_TYPE_RSP)>>)

\* TcpDeal taking UID 0 for a broadcast that every slave accepts
TcpDeal_AcceptZero(h, u, p) ==
    IF p.len = 0 THEN Deal("parse", p, p.out, <<>>, <<>>)
    ELSE IF cfg.addr_chk /\ p.out.mbap.did # 255 /\ p.out.mbap.did # 0
            /\ p.out.mbap.did # h.saddr
    THEN Deal("addr", p, p.out, <<>>, <<>>)
    ELSE IF cfg.mbap_chk /\ p.out.mbap.pid # MB_TCP_MBAP_PID
    THEN Deal("mbap", p, p.out, <<>>, <<>>)
    ELSE IF p.len < 0
    THEN TcpRespond("unsupported", p,
                    Dealt(Exc(p.out.pdu, MODBUS_EC_ILLEGAL_FUNCTION), <<>>))
    ELSE TcpRespond("dealt", p, modbus_slave_pdu_deal(h.cb, u, p.out.pdu))

\* modbus_slave_recv_deal_tcp after the frame parser has returned p
TcpDeal(h, u, p) ==
    IF p.len = 0 THEN Deal("parse", p, p.out, <<>>, <<>>)
    ELSE IF cfg.addr_chk /\ p.out.mbap.did # 255 /\ p.out.mbap.did # h.saddr
    THEN Deal("addr", p, p.out, <<>>, <<>>)
    ELSE IF cfg.mbap_chk /\ p.out.mbap.pid # MB_TCP_MBAP_PID
    THEN Deal("mbap", p, p.out, <<>>, <<>>)
    ELSE IF p.len < 0
    THEN TcpRespond("unsupported", p,
                    Dealt(Exc(p.out.pdu, MODBUS_EC_ILLEGAL_FUNCTION), <<>>))
    ELSE TcpRespond("dealt", p, modbus_slave_pdu_deal(h.cb, u, p.out.pdu))

modbus_slave_recv_deal_tcp(h, buf, u) ==
    TcpDeal(h, u, modbus_tcp_frm_parse(buf, TcpFrm0, MB_PDU_TYPE_REQ))

modbus_slave_recv_deal(h, buf, u) ==
    IF h.prototype = "RTU" THEN modbus_slave_recv_deal_rtu(h, buf, u)
    ELSE modbus_slave_recv_deal_tcp(h, buf, u)

\* what one slave step leaves behind: the calls it made on the instance
\* (connect, delay, recv, deal) and what modbus_slave_recv_deal left
Step(io, d) == [io |-> io, d |-> d]

NoDeal == Deal("none", Parsed(0, <<>>), <<>>, <<>>, <<>>)

\* modbus_slave_fsm handing the buffer to modbus_slave_recv_deal whatever
\* modbus_recv returned
modbus_slave_fsm_DealAnyway(h, e, u) ==
    IF e.conn # "ok" THEN Step(<<"connect", "delay">>, NoDeal)
    ELSE Step(<<"connect", "recv", "deal">>, modbus_slave_recv_deal(h, e.rx, u))

\* modbus_slave_fsm.  e is what the transport does: e.conn is how
\* modbus_connect answers, e.rlen and e.rx how modbus_recv answers.
modbus_slave_fsm(h, e, u) ==
    IF e.conn # "ok" THEN Step(<<"connect", "delay">>, NoDeal)
    ELSE IF RecvLen(e) <= 0 THEN Step(<<"connect", "recv">>, NoDeal)
    ELSE Step(<<"connect", "recv", "deal">>, modbus_slave_recv_deal(h, e.rx, u))

-----------------------------------------------------------------------------
(* The slave instance, its callbacks and its transport                      *)

MaxSteps == 2   \* slave steps in one run

\* callback tables an application may install, and the instance's default
CbWeak   == [kind |-> "weak", has |-> CbNames]
CbTables ==
    {[kind |-> "user", has |-> CbNames]}
        \cup {[kind |-> "user", has |-> CbNames \ {n}] : n \in CbNames}

\* what the application's callbacks may do during one step: all succeed, or
\* the k-th one invoked returns -4, or the first one returns -258
CbEnvs ==
    {[failAt |-> 0, failCode |-> 0, mem |-> 4660]}
        \cup {[failAt |-> k, failCode |-> MODBUS_EC_SLAVE_OR_SERVER_FAILURE,
               mem |-> 4660] : k \in 1..(MaxNb + 1)}
        \cup {[failAt |-> 1, failCode |-> 256 + MODBUS_EC_ILLEGAL_DATA_ADDRESS,
               mem |-> 4660]}

\* request PDUs a peer may send: every function code of the engine with
\* quantities up to MaxNb, at an address in the middle of the range and at
\* the last address; a coil value that is neither ON nor OFF; an unsupported
\* function code; PDUs cut short
ReqPdus ==
    LET Req(r) == modbus_pdu_make(r, MB_PDU_TYPE_REQ)
        A      == {107, 65535}
    IN  {Req(ReadReq(fc, a, nb)) : fc \in FcRead, a \in A, nb \in 1..MaxNb}
        \cup {Req(ReadReq(MODBUS_FC_READ_COILS, 107, 9))}
        \cup {Req([PduZero EXCEPT !.fc = MODBUS_FC_WRITE_SINGLE_COIL,
                                  !.addr = 107, !.val = v]) :
                v \in {0, 65280, 256}}
        \cup {Req([PduZero EXCEPT !.fc = MODBUS_FC_WRITE_SINGLE_REGISTER,
                                  !.addr = 107, !.val = 4660])}
        \cup {Req([PduZero EXCEPT !.fc = MODBUS_FC_WRITE_MULTIPLE_COILS,
                                  !.addr = a, !.nb = nb, !.dlen = 1,
                                  !.pdata = <<2 ^ nb - 1>>]) :
                a \in A, nb \in 1..MaxNb}
        \cup {Req([PduZero EXCEPT !.fc = MODBUS_FC_WRITE_MULTIPLE_REGISTERS,
                                  !.addr = a, !.nb = nb, !.dlen = 2 * nb,
                                  !.pdata = BytesOf([k \in 1..nb |-> 4660 + k])]) :
                a \in A, nb \in 1..MaxNb}
        \cup {Req([PduZero EXCEPT !.fc = MODBUS_FC_MASK_WRITE_REGISTER,
                                  !.addr = a, !.val_and = va, !.val_or = vo]) :
                a \in A, va \in {65535, 242, 0, 65280}, vo \in {0, 37, 65535}}
        \cup {Req([PduZero EXCEPT !.fc = MODBUS_FC_WRITE_AND_READ_REGISTERS,
                                  !.rd_addr = 107, !.rd_nb = nb,
                                  !.wr_addr = 108, !.wr_nb = wn, !.dlen = 2 * wn,
                                  !.pdata = BytesOf([k \in 1..wn |-> 43980 + k])]) :
                nb \in 1..MaxNb, wn \in 1..MaxNb}
        \cup {<<101, 0>>, <<7>>, <<3, 0>>, <<MODBUS_FC_WRITE_MULTIPLE_REGISTERS,
                                             0, 107, 0, 1, 2, 18>>}

\* RTU frames a peer may put on the line: to the slave, to another slave, as
\* a broadcast, with a wrong CRC, and too short
SlaveRtuFrames(h) ==
    LET Frame(a, pdu, x) ==
            LET body == <<a>> \o pdu
                crc  == Xor16(modbus_crc_cal(body), x)
            IN  body \o <<crc % 256, crc \div 256>>
    IN  {Frame(a, pdu, 0) : a \in {h.saddr, OtherAddr(h.saddr), 0}, pdu \in ReqPdus}
        \cup {Frame(h.saddr, pdu, 1) : pdu \in ReqPdus}
        \cup {<<h.saddr, 3, 0>>}

\* TCP frames a peer may send: to the slave's UID, to another one, to 0xFF and
\* to 0, with another PID, with another DLEN, and too short
SlaveTcpFrames(h) ==
    LET good == [tid |-> 513, pid |-> MB_TCP_MBAP_PID, dd |-> 0, did |-> h.saddr]
        hdrs == {good,
                 [good EXCEPT !.did = OtherAddr(h.saddr)],
                 [good EXCEPT !.did = 255],
                 [good EXCEPT !.did = 0],
                 [good EXCEPT !.pid = 1],
                 [good EXCEPT !.dd = 1]}
        Frame(m, pdu) ==
            modbus_cvt_u16_put(m.tid) \o modbus_cvt_u16_put(m.pid)
                \o modbus_cvt_u16_put(Len(pdu) + 1 + m.dd) \o <<m.did>> \o pdu
    IN  {Frame(m, pdu) : m \in hdrs, pdu \in ReqPdus}
        \cup {SubSeq(Frame(good, <<3>>), 1, 7)}

\* everything the transport may do during one slave step
SlaveEnvs(h) ==
    {[conn |-> "fail", rlen |-> "tmo", rx |-> <<>>],
     [conn |-> "ok", rlen |-> "tmo", rx |-> <<>>],
     [conn |-> "ok", rlen |-> "err", rx |-> <<>>]}
        \cup {[conn |-> "ok", rlen |-> "frame", rx |-> f] :
                f \in IF h.prototype = "RTU" THEN SlaveRtuFrames(h)
                      ELSE SlaveTcpFrames(h)}

SlaveInstance == [prototype |-> prototype, saddr |-> saddr, cb |-> slv.cb]

InitSlave ==
    /\ cfg \in [addr_chk : BOOLEAN, mbap_chk : BOOLEAN]
    /\ prototype \in {"RTU", "TCP"}
    /\ saddr \in {1, 247}
    /\ ntcp = 0
    /\ tsid = 0
    /\ tid = 0
    /\ nops = 0
    /\ mst = MstIdle
    /\ slv \in {[SlvIdle EXCEPT !.cb = c] :
                    c \in {CbWeak, [kind |-> "null", has |-> {}]}}
    /\ bkd = modbus_backend_create("RTU", -1)
    /\ pair = PairIdle
    /\ codec = CodecIdle

\* one call of modbus_slave_fsm has run to its return
SlaveStep ==
    /\ slv.st = "idle"
    /\ nops < MaxSteps
    /\ \E e \in SlaveEnvs(SlaveInstance), u \in CbEnvs :
         slv' = [st |-> "done", cb |-> slv.cb, e |-> e,
                 r |-> modbus_slave_fsm(SlaveInstance, e, u)]
    /\ nops' = nops + 1
    /\ UNCHANGED <<cfg, prototype, saddr, tsid, tid, ntcp, mst, bkd, pair, codec>>

\* the application's loop comes round to the next step
SlaveReturn ==
    /\ slv.st = "done"
    /\ slv' = [SlvIdle EXCEPT !.cb = slv.cb]
    /\ UNCHANGED <<cfg, prototype, saddr, tsid, tid, ntcp, nops, mst, bkd, pair, codec>>

\* modbus_set_cb_table: the application installs its callbacks
modbus_set_cb_table ==
    /\ slv.st = "idle"
    /\ nops < MaxSteps
    /\ \E c \in CbTables : c # slv.cb /\ slv' = [slv EXCEPT !.cb = c]
    /\ UNCHANGED <<cfg, prototype, saddr, tsid, tid, ntcp, nops, mst, bkd, pair, codec>>

NextSlave ==
    \/ SlaveStep
    \/ SlaveReturn
    \/ modbus_set_cb_table

SpecSlave == InitSlave /\ [][NextSlave]_vars

-----------------------------------------------------------------------------
(* The backend, its callers, its port and the peer                          *)

\* how long modbus_port_delay_ms(2) may take, in ms
Delays == {2, 3}

\* timeouts an application configures, <<ack_tmo_ms, byte_tmo_ms>>: a few
\* turns of the read loop long, so that every timeout is reached
Timeouts == {<<4, 2>>}

\* buffer sizes a caller passes to modbus_backend_read: none, room for one
\* frame, room for both frames and more
BufSizes == {0, MaxFrame, 2 * MaxFrame + 1}

\* a backend as modbus_backend_create returns it, with the timeouts of the
\* application in place of the defaults
Configured(b) == [b EXCEPT !.ack_tmo_ms = 5, !.byte_tmo_ms = 3]

InitBackend ==
    /\ cfg = [addr_chk |-> FALSE, mbap_chk |-> FALSE]
    /\ prototype = "RTU"
    /\ saddr = 1
    /\ ntcp = 0
    /\ tsid = 0
    /\ tid = 0
    /\ nops = 0
    /\ mst = MstIdle
    /\ slv = SlvIdle
    /\ bkd \in {Configured(modbus_backend_create(t, -1)) : t \in {"RTU", "TCP"}}
                \cup {Configured(modbus_backend_create("SOCK", fd)) :
                        fd \in {0, 3}}
    /\ pair = PairIdle
    /\ codec = CodecIdle

\* a caller may call the backend
CanCallBackend == bkd.pc = "idle" /\ bkd.calls < MaxCalls

BackendOpen ==
    /\ CanCallBackend
    /\ \E o \in PortOpens(bkd) : bkd' = modbus_backend_open(bkd, o)
    /\ UNCHANGED <<cfg, prototype, saddr, tsid, tid, ntcp, nops, mst, slv, pair, codec>>

BackendClose ==
    /\ CanCallBackend
    /\ \E ok \in BOOLEAN : bkd' = modbus_backend_close(bkd, ok)
    /\ UNCHANGED <<cfg, prototype, saddr, tsid, tid, ntcp, nops, mst, slv, pair, codec>>

BackendTimeoutConfig ==
    /\ CanCallBackend
    /\ \E t \in Timeouts :
         /\ <<bkd.ack_tmo_ms, bkd.byte_tmo_ms>> # t
         /\ bkd' = modbus_backend_timeout_config(bkd, t[1], t[2])
    /\ UNCHANGED <<cfg, prototype, saddr, tsid, tid, ntcp, nops, mst, slv, pair, codec>>

BackendWrite ==
    /\ CanCallBackend
    /\ \E size \in {0, 8}, w \in {8, -1} : bkd' = modbus_backend_write(bkd, size, w)
    /\ UNCHANGED <<cfg, prototype, saddr, tsid, tid, ntcp, nops, mst, slv, pair, codec>>

BackendFlush ==
    /\ CanCallBackend
    /\ \E ok \in BOOLEAN : bkd' = modbus_backend_flush(bkd, ok)
    /\ UNCHANGED <<cfg, prototype, saddr, tsid, tid, ntcp, nops, mst, slv, pair, codec>>

BackendDestory ==
    /\ CanCallBackend
    /\ \E ok \in BOOLEAN : bkd' = modbus_backend_destory(bkd, ok)
    /\ UNCHANGED <<cfg, prototype, saddr, tsid, tid, ntcp, nops, mst, slv, pair, codec>>

\* modbus_backend_read is called
BackendRead ==
    /\ CanCallBackend
    /\ \E bufsize \in BufSizes : bkd' = ReadEnter(bkd, bufsize)
    /\ UNCHANGED <<cfg, prototype, saddr, tsid, tid, ntcp, nops, mst, slv, pair, codec>>

\* the call of modbus_backend_read in progress makes one turn of its loop
BackendReadLoop ==
    /\ bkd.pc = "read"
    /\ \E perr \in BOOLEAN, d \in Delays :
         bkd' = ReadLoop(bkd, Min(Len(bkd.rxq), bkd.bufsize - bkd.pos), perr, d)
    /\ UNCHANGED <<cfg, prototype, saddr, tsid, tid, ntcp, nops, mst, slv, pair, codec>>

\* the peer sends the next bytes of the frame it is sending
Feed ==
    /\ bkd.pc # "freed"
    /\ bkd.held # {}
    /\ bkd.fed < 2 * MaxFrame
    /\ \E k \in 1..(MaxFrame - (bkd.fed % MaxFrame)) : bkd' = Fed(bkd, k)
    /\ UNCHANGED <<cfg, prototype, saddr, tsid, tid, ntcp, nops, mst, slv, pair, codec>>

NextBackend ==
    \/ BackendOpen
    \/ BackendClose
    \/ BackendTimeoutConfig
    \/ BackendWrite
    \/ BackendFlush
    \/ BackendDestory
    \/ BackendRead
    \/ BackendReadLoop
    \/ Feed

SpecBackend == InitBackend /\ [][NextBackend]_vars

\* the calls that bear on modbus_backend_read: the backend is opened and
\* configured, the peer sends, the caller reads
NextRead ==
    \/ BackendOpen
    \/ BackendTimeoutConfig
    \/ BackendRead
    \/ BackendReadLoop
    \/ Feed

\* the thread inside modbus_backend_read keeps running and the millisecond
\* clock keeps advancing: the loop of a call in progress makes its next turn
SpecBackendLive ==
    InitBackend /\ [][NextRead]_vars /\ WF_vars(BackendReadLoop)

-----------------------------------------------------------------------------
(* Two instances over two backends                                          *)
(*                                                                          *)
(* pair.inst[i] is the mb_inst_t of instance i: its role, prototype, saddr, *)
(* tsid, tid, cb, the backend it was created over (backend), its scratch    *)
(* buffers buf and datas, where the operation in progress stands (pc), the  *)
(* result of the last operation (ret) and the operations started (turns).   *)
(* pair.wire[b] is the transport of backend b: the frames written to it and *)
(* the number of reads made on it.                                          *)
(* A master runs modbus_read_regs(hinst, 107, 1, pregs); a slave runs       *)
(* modbus_slave_fsm.  Each is cut where it calls the transport, so that     *)
(* the steps of the two instances interleave.                               *)

MaxTurns == 2   \* operations each instance of the pair starts

\* the request structure of modbus_read_regs(hinst, 107, 1, pregs); g is
\* what a read of the unassigned mbap.dlen yields
PairFrm0(h, g) ==
    IF h.prototype = "RTU"
    THEN [saddr |-> h.saddr,
          pdu |-> ReadReq(MODBUS_FC_READ_HOLDING_REGISTERS, 107, 1)]
    ELSE [mbap |-> [tid |-> h.tsid, pid |-> MB_TCP_MBAP_PID, dlen |-> g,
                    did |-> h.saddr],
          pdu |-> ReadReq(MODBUS_FC_READ_HOLDING_REGISTERS, 107, 1)]

\* modbus_send(hinst, hinst->buf, flen): the frame goes to the instance's
\* backend
PairWrite(p, i, frame) ==
    [p EXCEPT !.wire[p.inst[i].backend].tx = Append(@, frame)]

\* PairSend making the frame in a buffer that all instances share
PairSend_StaticBuf(p, i) ==
    LET h   == [p.inst[i] EXCEPT
                  !.tsid = IF p.inst[i].prototype = "TCP"
                           THEN (@ + 1) % 65536 ELSE @]
        buf == IF h.prototype = "RTU"
               THEN modbus_rtu_frame_make(PairFrm0(h, 0), MB_PDU_TYPE_REQ)
               ELSE modbus_tcp_frm_make(PairFrm0(h, 0), MB_PDU_TYPE_REQ)
    IN  PairWrite([p EXCEPT !.inst = [j \in DOMAIN p.inst |->
                                        IF j = i
                                        THEN [h EXCEPT !.buf = buf, !.pc = "sent",
                                                       !.turns = @ + 1]
                                        ELSE [p.inst[j] EXCEPT !.buf = buf]]],
                  i, buf)

\* modbus_read_req_rtu / modbus_read_req_tcp of instance i up to modbus_send:
\* hinst->tsid++ on TCP, the request made in hinst->buf, and sent
PairSend(p, i) ==
    LET h   == [p.inst[i] EXCEPT
                  !.tsid = IF p.inst[i].prototype = "TCP"
                           THEN (@ + 1) % 65536 ELSE @]
        buf == IF h.prototype = "RTU"
               THEN modbus_rtu_frame_make(PairFrm0(h, 0), MB_PDU_TYPE_REQ)
               ELSE modbus_tcp_frm_make(PairFrm0(h, 0), MB_PDU_TYPE_REQ)
    IN  PairWrite([p EXCEPT !.inst[i] = [h EXCEPT !.buf = buf, !.pc = "sent",
                                                  !.turns = @ + 1]],
                  i, buf)

\* modbus_recv(hinst, hinst->buf, sizeof(hinst->buf)) of instance i: rx is
\* what its backend hands over; nothing (a timeout) ends the operation with 0
PairRecv(p, i, rx) ==
    LET h == p.inst[i]
        q == [p EXCEPT !.wire[h.backend].reads = @ + 1]
    IN  IF rx = <<>>
        THEN [q EXCEPT !.inst[i].pc = "idle", !.inst[i].ret = 0,
                       !.inst[i].turns = IF h.role = "slave" THEN @ + 1 ELSE @]
        ELSE [q EXCEPT !.inst[i].pc = "rcvd", !.inst[i].buf = rx,
                       !.inst[i].turns = IF h.role = "slave" THEN @ + 1 ELSE @]

\* modbus_read_regs of instance i after modbus_recv: parse, checks, the
\* payload copied to hinst->datas, the registers decoded; g is what an
\* indeterminate read yields
PairFinish(p, i, g) ==
    LET h    == p.inst[i]
        e    == [slen |-> "ok", rlen |-> "frame", rx |-> h.buf, garb |-> g]
        x    == IF h.prototype = "RTU"
                THEN RtuSteps(h, e, PairFrm0(h, g), h.buf,
                              modbus_rtu_frame_parse(h.buf, PairFrm0(h, g),
                                                     MB_PDU_TYPE_RSP))
                ELSE TcpSteps(h, e, h.tsid, PairFrm0(h, g), h.buf,
                              modbus_tcp_frm_parse(h.buf, PairFrm0(h, g),
                                                   MB_PDU_TYPE_RSP))
        r    == ReadReqTail(x, e)
        d    == ReadRegsTail(r, 1)
    IN  [p EXCEPT !.inst[i].pc = "idle", !.inst[i].ret = d.ret,
                  !.inst[i].datas = IF x.stage = "ok" THEN r.stored ELSE @]

\* modbus_slave_recv_deal of instance i on the frame in hinst->buf: the
\* handler fills hinst->datas, the response is made in hinst->buf and sent
PairDeal(p, i, u) ==
    LET h == p.inst[i]
        r == modbus_slave_recv_deal(h, h.buf, u)
        q == [p EXCEPT !.inst[i].pc = "idle", !.inst[i].ret = Len(r.sent)]
    IN  IF r.sent = <<>> THEN q
        ELSE PairWrite([q EXCEPT !.inst[i].buf = r.sent[1],
                                 !.inst[i].datas =
                                    IF r.stage = "dealt"
                                       /\ ~MODBUS_FC_EXCEPT_CHK(r.frm.pdu.fc)
                                       /\ r.frm.pdu.fc \in FcRead
                                    THEN r.frm.pdu.pdata ELSE @],
                       i, r.sent[1])

\* an instance as the factory returns it, over backend b
PairInst(role, proto, sa, b) ==
    [role |-> role, prototype |-> proto, saddr |-> sa, tsid |-> 0, tid |-> 0,
     cb |-> [kind |-> "user", has |-> CbNames], backend |-> b,
     buf |-> <<>>, datas |-> <<>>, pc |-> "idle", ret |-> 0, turns |-> 0]

\* what the peer behind the backend of instance h may have sent when h
\* reads: nothing, or a frame for h; to a master a response, an exception,
\* and on TCP the response to its previous request; to a slave a register
\* read and a register write
PairRx(h) ==
    LET pdus == IF h.role = "master"
                THEN {<<3, 2, 18, 52>>, <<131, 2>>}
                ELSE {<<3, 0, 107, 0, 1>>, <<6, 0, 107, 18, 52>>}
        Rtu(pdu) == LET body == <<h.saddr>> \o pdu
                        crc  == modbus_crc_cal(body)
                    IN  body \o <<crc % 256, crc \div 256>>
        Tcp(t, pdu) == modbus_cvt_u16_put(t) \o modbus_cvt_u16_put(MB_TCP_MBAP_PID)
                        \o modbus_cvt_u16_put(Len(pdu) + 1) \o <<h.saddr>> \o pdu
    IN  {<<>>} \cup
        IF h.prototype = "RTU" THEN {Rtu(pdu) : pdu \in pdus}
        ELSE {Tcp(t, pdu) : t \in {h.tsid, (h.tsid + 65535) % 65536}, pdu \in pdus}

InitPair ==
    /\ cfg \in [addr_chk : {TRUE}, mbap_chk : BOOLEAN]
    /\ prototype = "TCP"
    /\ saddr = 1
    /\ ntcp = 0
    /\ tsid = 0
    /\ tid = 0
    /\ nops = 0
    /\ mst = MstIdle
    /\ slv = SlvIdle
    /\ bkd = modbus_backend_create("RTU", -1)
    /\ codec = CodecIdle
    /\ \E rs \in {<<"master", "master">>, <<"master", "slave">>,
                   <<"slave", "slave">>},
          pa \in {"RTU", "TCP"}, pb \in {"RTU", "TCP"} :
         pair = [inst |-> [i \in {1, 2} |->
                             IF i = 1 THEN PairInst(rs[1], pa, 1, 1)
                             ELSE PairInst(rs[2], pb, 17, 2)],
                 wire |-> [b \in {1, 2} |-> [tx |-> <<>>, reads |-> 0]]]

\* instance i of p may start an operation
PairCanStart(p, i) == p.inst[i].pc = "idle" /\ p.inst[i].turns < MaxTurns

\* the states one step of instance i leads to from p: a master sends its
\* request, reads the response and finishes; a slave reads and deals
PairSends(p, i) ==
    IF p.inst[i].role = "master" /\ PairCanStart(p, i)
    THEN {PairSend(p, i)} ELSE {}

PairRecvs(p, i) ==
    IF \/ p.inst[i].role = "master" /\ p.inst[i].pc = "sent"
       \/ p.inst[i].role = "slave" /\ PairCanStart(p, i)
    THEN {PairRecv(p, i, rx) : rx \in PairRx(p.inst[i])} ELSE {}

PairFinishes(p, i) ==
    IF p.inst[i].role = "master" /\ p.inst[i].pc = "rcvd"
    THEN {PairFinish(p, i, g) : g \in Garbage} ELSE {}

PairDeals(p, i) ==
    IF p.inst[i].role = "slave" /\ p.inst[i].pc = "rcvd"
    THEN {PairDeal(p, i, [failAt |-> 0, failCode |-> 0, mem |-> 4660])}
    ELSE {}

PairMasterSend ==
    /\ \E i \in DOMAIN pair.inst : pair' \in PairSends(pair, i)
    /\ UNCHANGED <<cfg, prototype, saddr, tsid, tid, ntcp, nops, mst, slv, bkd, codec>>

PairReceive ==
    /\ \E i \in DOMAIN pair.inst : pair' \in PairRecvs(pair, i)
    /\ UNCHANGED <<cfg, prototype, saddr, tsid, tid, ntcp, nops, mst, slv, bkd, codec>>

PairMasterFinish ==
    /\ \E i \in DOMAIN pair.inst : pair' \in PairFinishes(pair, i)
    /\ UNCHANGED <<cfg, prototype, saddr, tsid, tid, ntcp, nops, mst, slv, bkd, codec>>

PairSlaveDeal ==
    /\ \E i \in DOMAIN pair.inst : pair' \in PairDeals(pair, i)
    /\ UNCHANGED <<cfg, prototype, saddr, tsid, tid, ntcp, nops, mst, slv, bkd, codec>>

NextPair ==
    \/ PairMasterSend
    \/ PairReceive
    \/ PairMasterFinish
    \/ PairSlaveDeal

SpecPair == InitPair /\ [][NextPair]_vars

-----------------------------------------------------------------------------
(* The TCP frame codec on its own                                           *)
(*                                                                          *)
(* codec.frm is a frame structure a caller hands to modbus_tcp_frm_make     *)
(* with the PDU type codec.type, codec.buf the bytes made and codec.flen    *)
(* the value returned; codec.plen and codec.out are what                    *)
(* modbus_tcp_frm_parse returns on those bytes.                             *)

\* PDU structures a caller may hand over: requests and responses of the
\* engine's function codes, an exception, and function codes the PDU
\* encoder does not know (it writes nothing and returns 0)
CodecPdus ==
    {[ReadReq(fc, a, 2) EXCEPT !.dlen = 4, !.pdata = <<18, 52, 86, 120>>] :
        fc \in FcRead, a \in {0, 107}}
    \cup {[PduZero EXCEPT !.fc = fc, !.addr = 107, !.val = v] :
            fc \in FcSingle, v \in {0, 65280}}
    \cup {[PduZero EXCEPT !.fc = MODBUS_FC_MASK_WRITE_REGISTER, !.addr = 107,
                          !.val_and = 242, !.val_or = 37]}
    \cup {[PduZero EXCEPT !.fc = 131, !.ec = MODBUS_EC_ILLEGAL_DATA_ADDRESS]}
    \cup {[PduZero EXCEPT !.fc = fc] : fc \in {0, 101}}

InitCodec ==
    /\ cfg \in [addr_chk : {TRUE}, mbap_chk : {FALSE}]
    /\ prototype = "TCP"
    /\ saddr = 1
    /\ ntcp = 0
    /\ tsid = 0
    /\ tid = 0
    /\ nops = 0
    /\ mst = MstIdle
    /\ slv = SlvIdle
    /\ bkd = modbus_backend_create("RTU", -1)
    /\ pair = PairIdle
    /\ \E pdu \in CodecPdus, t \in {0, 1, 65535}, pid \in {0, 1},
          did \in {1, 255}, type \in {MB_PDU_TYPE_REQ, MB_PDU_TYPE_RSP} :
         codec = [CodecIdle EXCEPT
                    !.st = "in", !.type = type,
                    !.frm = [mbap |-> [tid |-> t, pid |-> pid, dlen |-> 0,
                                       did |-> did],
                             pdu |-> pdu]]

\* flen = modbus_tcp_frm_make(buf, &frm, type)
CodecMake ==
    /\ codec.st = "in"
    /\ codec' = [codec EXCEPT
                   !.st = "made",
                   !.buf = modbus_tcp_frm_make(codec.frm, codec.type),
                   !.flen = Len(modbus_tcp_frm_make(codec.frm, codec.type))]
    /\ UNCHANGED <<cfg, prototype, saddr, tsid, tid, ntcp, nops, mst, slv, bkd,
                   pair>>

\* plen = modbus_tcp_frm_parse(buf, flen, &out, type)
CodecParse ==
    /\ codec.st = "made"
    /\ LET p == modbus_tcp_frm_parse(codec.buf, TcpFrm0, codec.type)
       IN  codec' = [codec EXCEPT !.st = "parsed", !.plen = p.len, !.out = p.out]
    /\ UNCHANGED <<cfg, prototype, saddr, tsid, tid, ntcp, nops, mst, slv, bkd,
                   pair>>

NextCodec ==
    \/ CodecMake
    \/ CodecParse

SpecCodec == InitCodec /\ [][NextCodec]_vars

-----------------------------------------------------------------------------
(* Properties of the master operations, checked under SpecMaster.           *)
(* While mst.st = "done", mst describes the operation that has just         *)
(* returned: what it was given, what the transport did, what it returned.   *)

\* the address byte of the frame the operation parsed
RspAddr == IF prototype = "RTU" THEN mst.frm.saddr ELSE mst.frm.mbap.did

\* the operation parsed a frame into an exception PDU
GotException ==
    /\ mst.st = "done"
    /\ mst.parsed
    /\ mst.plen > 0
    /\ MODBUS_FC_EXCEPT_CHK(mst.frm.pdu.fc)

\* C1 as stated, in a build without the MBAP check: every master operation,
\* on either transport, whose received frame parses to a PDU with the high
\* bit of the function code set returns the negated exception code of that
\* PDU, and never a positive value.
C1_ExceptionAlwaysNegated ==
    (GotException /\ ~cfg.mbap_chk)
        => mst.ret = 0 - mst.frm.pdu.ec /\ mst.ret <= 0

\* C1, amended: every master operation, on either transport, whose received
\* frame parses to a PDU with the high bit of the function code set returns 0
\* when the address check or the MBAP check of the build rejects the frame,
\* and the negated exception code of that PDU otherwise; it never returns a
\* positive value.
C1_ExceptionNegatedUnlessRejected ==
    GotException =>
        /\ mst.ret <= 0
        /\ mst.ret =
            IF cfg.addr_chk /\ RspAddr # saddr THEN 0
            ELSE IF /\ prototype = "TCP"
                    /\ cfg.mbap_chk
                    /\ \/ mst.frm.mbap.tid # tid
                       \/ mst.frm.mbap.pid # MB_TCP_MBAP_PID
                       \/ mst.frm.mbap.dlen # mst.plen + 1
            THEN 0
            ELSE 0 - mst.frm.pdu.ec

\* an exception response reaches the caller of a register read as -ec
C1_Witness ==
    /\ GotException
    /\ mst.op = "read_regs"
    /\ mst.frm.pdu.ec = MODBUS_EC_SLAVE_OR_SERVER_FAILURE
    /\ mst.ret = 0 - MODBUS_EC_SLAVE_OR_SERVER_FAILURE

\* C2 as stated: every master operation, on either transport, whose frame
\* parser reports a malformed frame (result 0) returns 0.
C2_MalformedReturnsZero ==
    (mst.st = "done" /\ mst.parsed /\ mst.plen = 0) => mst.ret = 0

\* the TID bytes of the request the operation transmitted
ReqTid == modbus_cvt_u16_get(mst.tx, 1)

\* the TID bytes of the response the operation received
RspTid == modbus_cvt_u16_get(mst.e.rx, 1)

\* C3 as stated, for a build with the MBAP check: a TCP master operation
\* returns a non-zero result only if the TID of the response frame equals the
\* TID transmitted in the request of the same operation.
C3_NonZeroOnlyOnSameTid ==
    (mst.st = "done" /\ prototype = "TCP" /\ cfg.mbap_chk /\ mst.ret # 0)
        => mst.e.rlen = "frame" /\ RspTid = ReqTid

\* C4: the transaction counter is the number of TCP transactions started on
\* the instance, modulo 2^16 (0 before the first one, 0 again after 0xFFFF),
\* the TID bytes of the k-th TCP request are k mod 2^16 whatever the outcome
\* of the transaction, and an RTU transaction leaves the counter alone.
C4_TidCountsTcpTransactions ==
    /\ tsid = ntcp % 65536
    /\ (mst.st = "done" /\ prototype = "TCP") => ReqTid = ntcp % 65536

\* the 65536th TCP transaction carries TID 0, here after a failed write
C4_Witness ==
    /\ mst.st = "done"
    /\ prototype = "TCP"
    /\ ntcp = 65536
    /\ tsid = 0
    /\ ReqTid = 0
    /\ mst.stage = "send"

\* C5: an operation calls the transport's write once and its read at most
\* once, the write first; it reads only after a write that returned the
\* frame length, and returns 0 without reading after any other write.
C5_WriteOnceThenReadOnce ==
    mst.st = "done" =>
        /\ mst.io \in {<<"write">>, <<"write", "read">>}
        /\ mst.io = <<"write", "read">> <=> mst.e.slen = "ok"
        /\ mst.e.slen # "ok" => mst.ret = 0

\* a short write ends the operation with 0 and without a read
C5_Witness ==
    /\ mst.st = "done"
    /\ mst.e.slen = "short"
    /\ mst.io = <<"write">>
    /\ mst.ret = 0

\* the receive step came back without a frame
NoFrame ==
    /\ mst.st = "done"
    /\ mst.io = <<"write", "read">>
    /\ mst.e.rlen \in {"tmo", "err"}

\* C6: an operation whose receive step yields no frame (0) or a transport
\* error (negative) returns 0 and stores nothing in the caller's output array.
C6_NoFrameReturnsZero == NoFrame => mst.ret = 0 /\ mst.stored = <<>>

\* a register read ends with 0 after an acknowledge timeout
C6_Witness == NoFrame /\ mst.op = "read_regs" /\ mst.e.rlen = "tmo" /\ mst.ret = 0

\* modbus_read_bits or modbus_read_input_bits has returned
ReadBitsDone == mst.st = "done" /\ mst.op \in {"read_bits", "read_input_bits"}

\* C22 as stated: modbus_read_bits and modbus_read_input_bits return a
\* positive value only when it is the number of bits asked for, and only for
\* a response whose byte count is ceil(nb / 8).
C22_PositiveIsBitCount ==
    (ReadBitsDone /\ mst.ret > 0)
        => /\ mst.ret = mst.nb
           /\ mst.plen > 0 => mst.frm.pdu.dlen = (mst.nb + 7) \div 8

\* C36 as stated: modbus_read_bits and modbus_read_input_bits store at most
\* ceil(nb / 8) bytes through pbits, whatever byte count the response
\* carries.
C36_BitsStoredWithinBuffer ==
    ReadBitsDone => Len(mst.stored) <= (mst.nb + 7) \div 8

\* modbus_read_regs or modbus_read_input_regs has returned
ReadRegsDone == mst.st = "done" /\ mst.op \in {"read_regs", "read_input_regs"}

\* the operation received a non-exception read response that passed the
\* checks of the build
GotReadResponse == mst.stage = "ok" /\ mst.plen > 0

\* C23 as stated: modbus_read_regs and modbus_read_input_regs return nb and
\* store register i as payload[2i] * 256 + payload[2i+1] exactly when the
\* response is a non-exception read response whose byte count is 2 * nb; for
\* any other byte count they return 0 and store nothing.
C23_RegsExactlyOnByteCount ==
    ReadRegsDone =>
        /\ (GotReadResponse /\ mst.frm.pdu.dlen = 2 * mst.nb)
            => /\ mst.ret = mst.nb
               /\ mst.stored = [i \in 1..mst.nb |->
                                  mst.frm.pdu.pdata[2 * i - 1] * 256
                                    + mst.frm.pdu.pdata[2 * i]]
        /\ (mst.ret > 0 \/ mst.stored # <<>>)
            => GotReadResponse /\ mst.frm.pdu.dlen = 2 * mst.nb
        /\ (GotReadResponse /\ mst.frm.pdu.dlen # 2 * mst.nb)
            => mst.ret = 0 /\ mst.stored = <<>>

\* modbus_write_bit or modbus_write_reg has returned
WriteSingleDone == mst.st = "done" /\ mst.op \in {"write_bit", "write_reg"}

\* the PDU inside a frame of the current protocol
PduOfFrame(f) ==
    IF prototype = "RTU" THEN SubSeq(f, 2, Len(f) - 2)
    ELSE SubSeqFrom(f, MB_TCP_MBAP_SIZE + 1)

\* C31 as stated: modbus_write_bit and modbus_write_reg return 1 only if the
\* response has the function code, address and value of the request that
\* was sent.
C31_OneOnlyOnEcho ==
    (WriteSingleDone /\ mst.ret = 1)
        => PduOfFrame(mst.e.rx) = PduOfFrame(mst.tx)

\* a TCP operation has received a frame and handed it to modbus_tcp_frm_parse
TcpParsed == mst.st = "done" /\ prototype = "TCP" /\ mst.parsed

\* what modbus_tcp_frm_parse returned on the received frame
TcpParseLen == modbus_tcp_frm_parse(mst.e.rx, TcpFrm0, MB_PDU_TYPE_RSP).len

\* what the PDU parser returns on the bytes after the MBAP header
TcpPduLen ==
    modbus_pdu_parse(SubSeqFrom(mst.e.rx, MB_TCP_MBAP_SIZE + 1), PduZero,
                     MB_PDU_TYPE_RSP).len

\* C32 as stated: modbus_tcp_frm_parse returns 0 for an input shorter than
\* the smallest frame, 0 when PID is not 0 or DLEN is not the parsed PDU
\* length plus one, and the result of the PDU parser otherwise (0 when the
\* frame holds fewer bytes than the PDU parser reports).
C32_ParseValidatesMbap ==
    TcpParsed =>
        IF Len(mst.e.rx) < MB_TCP_FRM_MIN THEN TcpParseLen = 0
        ELSE IF \/ modbus_cvt_u16_get(mst.e.rx, 3) # MB_TCP_MBAP_PID
                \/ /\ TcpPduLen > 0
                   /\ modbus_cvt_u16_get(mst.e.rx, 5) # TcpPduLen + 1
        THEN TcpParseLen = 0
        ELSE \/ TcpParseLen = TcpPduLen
             \/ /\ Len(mst.e.rx) - MB_TCP_MBAP_SIZE < TcpPduLen
                /\ TcpParseLen = 0

-----------------------------------------------------------------------------
(* Properties of the slave step, checked under SpecSlave.                   *)
(* While slv.st = "done", slv describes the step that has just returned:    *)
(* the bytes received (slv.e.rx), the callbacks invoked (slv.r.d.log) and   *)
(* the frames handed to modbus_send (slv.r.d.sent).                         *)

\* the step received a frame and handed it to modbus_slave_recv_deal
GotFrame == slv.st = "done" /\ slv.r.io = <<"connect", "recv", "deal">>

\* the address byte of the received frame: saddr on RTU, UID on TCP
ReqAddr == IF prototype = "RTU" THEN slv.e.rx[1] ELSE slv.e.rx[7]

\* the received frame carries an address byte that does not match
AddrMismatch ==
    IF prototype = "RTU" THEN ReqAddr # saddr
    ELSE Len(slv.e.rx) >= MB_TCP_MBAP_SIZE /\ ReqAddr # saddr /\ ReqAddr # 255

\* C7: with address checking enabled, a slave step that receives a frame
\* whose address does not match (saddr other than the instance's on RTU; UID
\* other than the instance's and other than 0xFF on TCP) transmits nothing
\* and invokes no callback.
C7_MismatchIsSilent ==
    (GotFrame /\ cfg.addr_chk /\ AddrMismatch)
        => slv.r.d.sent = <<>> /\ slv.r.d.log = <<>>

\* a well-formed TCP request for another unit is dropped by a slave whose
\* callbacks are installed
C7_Witness ==
    /\ GotFrame
    /\ cfg.addr_chk
    /\ prototype = "TCP"
    /\ AddrMismatch
    /\ slv.r.d.plen > 0
    /\ slv.cb.kind = "user"
    /\ slv.r.d.sent = <<>>

\* C8 as stated: an RTU broadcast request (saddr 0) that a slave with an
\* address in 1..247 receives is dispatched to the handler of its function
\* code, and no response frame is transmitted.
C8_BroadcastProcessedSilently ==
    (GotFrame /\ prototype = "RTU" /\ saddr \in 1..247 /\ ReqAddr = 0
        /\ slv.r.d.plen > 0)
        => slv.r.d.stage = "dealt" /\ slv.r.d.sent = <<>>

\* C9: a slave step whose received frame is malformed (the frame parser
\* returns 0) transmits nothing and invokes no callback, on RTU and on TCP.
C9_MalformedIsSilent ==
    (GotFrame /\ slv.r.d.plen = 0) => slv.r.d.sent = <<>> /\ slv.r.d.log = <<>>

\* a request to the slave's own address with a wrong CRC is dropped
C9_Witness ==
    /\ GotFrame
    /\ prototype = "RTU"
    /\ Len(slv.e.rx) >= 8
    /\ ReqAddr = saddr
    /\ modbus_crc_cal(SubSeq(slv.e.rx, 1, Len(slv.e.rx) - 2))
            # slv.e.rx[Len(slv.e.rx) - 1] + 256 * slv.e.rx[Len(slv.e.rx)]
    /\ slv.r.d.plen = 0
    /\ slv.r.d.sent = <<>>

\* the received frame is addressed to this slave and its function code is
\* not one the PDU parser knows
UnsupportedForMe ==
    /\ GotFrame
    /\ slv.r.d.plen = -1
    /\ IF prototype = "RTU" THEN ReqAddr = saddr ELSE ReqAddr \in {saddr, 255}

\* the PID bytes of a received TCP frame
ReqPid == modbus_cvt_u16_get(slv.e.rx, 3)

\* the exception response to the received frame, built from its bytes:
\* [saddr][fc | 0x80][0x01][CRC] on RTU, the MBAP header of the request with
\* DLEN 3 followed by [fc | 0x80][0x01] on TCP
IllegalFunctionRsp ==
    IF prototype = "RTU"
    THEN <<slv.e.rx[1], slv.e.rx[2] + 128, 1,
           modbus_crc_cal(<<slv.e.rx[1], slv.e.rx[2] + 128, 1>>) % 256,
           modbus_crc_cal(<<slv.e.rx[1], slv.e.rx[2] + 128, 1>>) \div 256>>
    ELSE SubSeq(slv.e.rx, 1, 4) \o <<0, 3, slv.e.rx[7], slv.e.rx[8] + 128, 1>>

\* C10 as stated: a slave that receives a correctly addressed frame whose
\* function code is unsupported (the frame parser returns -1) invokes no
\* callback and transmits exactly one response, the exception PDU
\* [fc | 0x80][0x01] framed for the instance's transport.
C10_UnsupportedAlwaysAnswered ==
    UnsupportedForMe
        => slv.r.d.log = <<>> /\ slv.r.d.sent = <<IllegalFunctionRsp>>

\* C10, amended: a slave that receives a correctly addressed frame whose
\* function code is unsupported (the frame parser returns -1) invokes no
\* callback; it transmits exactly one response, the exception PDU
\* [fc | 0x80][0x01] framed for the instance's transport, unless the
\* transport is TCP, the build has the MBAP check and the PID of the frame is
\* not 0x0000, in which case it transmits nothing.
C10_UnsupportedAnsweredUnlessPid ==
    UnsupportedForMe =>
        /\ slv.r.d.log = <<>>
        /\ slv.r.d.sent =
            IF prototype = "TCP" /\ cfg.mbap_chk /\ ReqPid # MB_TCP_MBAP_PID
            THEN <<>>
            ELSE <<IllegalFunctionRsp>>

\* function code 0x65 sent to an RTU slave with callbacks is answered with
\* [saddr][0xE5][0x01][CRC]
C10_Witness ==
    /\ UnsupportedForMe
    /\ prototype = "RTU"
    /\ slv.cb.kind = "user"
    /\ slv.e.rx[2] = 101
    /\ Len(slv.r.d.sent) = 1
    /\ SubSeq(slv.r.d.sent[1], 1, 3) = <<saddr, 229, 1>>

\* the step dispatched the received PDU to the handler of its function code
Dispatched == GotFrame /\ slv.r.d.stage = "dealt"

\* the function code byte of the received frame
ReqFc == IF prototype = "RTU" THEN slv.e.rx[2] ELSE slv.e.rx[8]

\* the PDU bytes of the response frame transmitted: without saddr and CRC on
\* RTU, without the MBAP header on TCP
RspPduSent ==
    IF prototype = "RTU"
    THEN SubSeq(slv.r.d.sent[1], 2, Len(slv.r.d.sent[1]) - 2)
    ELSE SubSeqFrom(slv.r.d.sent[1], MB_TCP_MBAP_SIZE + 1)

\* the callbacks the handler of a function code needs
Needs(fc) ==
    CASE fc = 1 -> {"read_coil"}
      [] fc = 2 -> {"read_disc"}
      [] fc = 3 -> {"read_hold"}
      [] fc = 4 -> {"read_input"}
      [] fc \in {5, 15} -> {"write_coil"}
      [] fc \in {6, 16} -> {"write_hold"}
      [] fc \in {22, 23} -> {"read_hold", "write_hold"}
      [] OTHER -> {}

\* the callback table is absent or lacks a callback the handler needs
CallbackMissing ==
    slv.cb.kind = "null" \/ ~(Needs(ReqFc) \subseteq slv.cb.has)

\* C11: when a request is dispatched (function codes 0x01-0x06, 0x0F, 0x10,
\* 0x16, 0x17) and the callback table is absent or lacks a callback the
\* handler needs (0x16 and 0x17 need read_hold and write_hold), no callback
\* is invoked and the one response transmitted is [fc | 0x80][0x04].
C11_MissingCallbackIsDeviceFailure ==
    (Dispatched /\ CallbackMissing)
        => /\ slv.r.d.log = <<>>
           /\ Len(slv.r.d.sent) = 1
           /\ RspPduSent = <<ReqFc + 128, 4>>

\* a mask-write request to a slave whose table has read_hold but not
\* write_hold is answered with [0x96][0x04] without reading the register
C11_Witness ==
    /\ Dispatched
    /\ ReqFc = 22
    /\ slv.cb.kind = "user"
    /\ slv.cb.has = CbNames \ {"write_hold"}
    /\ slv.r.d.log = <<>>
    /\ RspPduSent = <<150, 4>>

\* the calls of the step in which a callback returned a negative value
Failed == {k \in 1..Len(slv.r.d.log) : slv.r.d.log[k].rst < 0}

\* C12 as stated: when a callback returns a negative value r during a
\* dispatched request, no further callback is invoked and the one response
\* transmitted is the exception PDU [fc | 0x80][-r].
C12_FailureIsExceptionMinusR ==
    (Dispatched /\ Failed # {})
        => /\ Failed = {Len(slv.r.d.log)}
           /\ Len(slv.r.d.sent) = 1
           /\ RspPduSent = <<ReqFc + 128, 0 - slv.r.d.log[Len(slv.r.d.log)].rst>>

\* C12, amended: when a callback returns a negative value r during a
\* dispatched request, no further callback is invoked and the one response
\* transmitted is the two-byte exception PDU [fc | 0x80][(-r) mod 256]; its
\* second byte is -r when -255 <= r <= -1.
C12_FailureIsExceptionLowByte ==
    (Dispatched /\ Failed # {})
        => /\ Failed = {Len(slv.r.d.log)}
           /\ Len(slv.r.d.sent) = 1
           /\ RspPduSent =
                <<ReqFc + 128, (0 - slv.r.d.log[Len(slv.r.d.log)].rst) % 256>>

\* a write of two registers whose second write_hold returns -4 is answered
\* with [0x90][0x04] after exactly two callbacks
C12_Witness ==
    /\ Dispatched
    /\ ReqFc = 16
    /\ slv.cb.kind = "user"
    /\ Len(slv.r.d.log) = 2
    /\ slv.r.d.log[1].rst = 0
    /\ slv.r.d.log[2].rst = -4
    /\ RspPduSent = <<144, 4>>

\* the PDU bytes of the received frame: without saddr and CRC on RTU,
\* without the MBAP header on TCP
ReqPdu ==
    IF prototype = "RTU" THEN SubSeq(slv.e.rx, 2, Len(slv.e.rx) - 2)
    ELSE SubSeqFrom(slv.e.rx, MB_TCP_MBAP_SIZE + 1)

\* a write-single-coil request was dispatched and write_coil is registered
WriteCoilDispatched ==
    /\ Dispatched
    /\ ReqFc = 5
    /\ slv.cb.kind # "null"
    /\ "write_coil" \in slv.cb.has

\* C13: for a dispatched write-single-coil request (0x05) with write_coil
\* registered: a value other than 0x0000 and 0xFF00 invokes no callback and
\* is answered with [0x85][0x03]; the value 0xFF00 invokes write_coil once
\* with bit 1 and the value 0x0000 once with bit 0, at the address of the
\* request.
C13_WriteCoilValueChecked ==
    WriteCoilDispatched =>
        IF modbus_cvt_u16_get(ReqPdu, 4) \notin {0, 65280}
        THEN /\ slv.r.d.log = <<>>
             /\ Len(slv.r.d.sent) = 1
             /\ RspPduSent = <<133, 3>>
        ELSE /\ Len(slv.r.d.log) = 1
             /\ slv.r.d.log[1].cb = "write_coil"
             /\ slv.r.d.log[1].addr = modbus_cvt_u16_get(ReqPdu, 2)
             /\ slv.r.d.log[1].val =
                    IF modbus_cvt_u16_get(ReqPdu, 4) = 65280 THEN 1 ELSE 0

\* the value 0x0100 sent to a slave with its own write_coil is answered with
\* [0x85][0x03] and the callback is not invoked
C13_Witness ==
    /\ WriteCoilDispatched
    /\ slv.cb.kind = "user"
    /\ modbus_cvt_u16_get(ReqPdu, 4) = 256
    /\ slv.r.d.log = <<>>
    /\ RspPduSent = <<133, 3>>

\* a mask-write request was dispatched and both callbacks are registered
MaskWriteDispatched ==
    /\ Dispatched
    /\ ReqFc = 22
    /\ slv.cb.kind # "null"
    /\ {"read_hold", "write_hold"} \subseteq slv.cb.has

\* bit i of x
BitOf(x, i) == (x \div 2 ^ i) % 2

\* the 16-bit value whose every bit is the bit of cur where and_mask has 1
\* and the bit of or_mask where and_mask has 0
Masked(cur, and_mask, or_mask) ==
    LET b(i) == IF BitOf(and_mask, i) = 1 THEN BitOf(cur, i)
                ELSE BitOf(or_mask, i)
    IN  b(0) + 2 * b(1) + 4 * b(2) + 8 * b(3) + 16 * b(4) + 32 * b(5)
          + 64 * b(6) + 128 * b(7) + 256 * b(8) + 512 * b(9) + 1024 * b(10)
          + 2048 * b(11) + 4096 * b(12) + 8192 * b(13) + 16384 * b(14)
          + 32768 * b(15)

\* C14: the mask-write handler (0x16) first calls read_hold at the address
\* of the request; if that fails, write_hold is not invoked; otherwise it
\* calls write_hold once, at the same address, with
\* (current AND and_mask) OR (or_mask AND NOT and_mask): and_mask 0xFFFF with
\* or_mask 0 writes the current value back, and_mask 0 with or_mask V
\* writes V.
C14_MaskWriteFormula ==
    MaskWriteDispatched =>
        LET log == slv.r.d.log
            am  == modbus_cvt_u16_get(ReqPdu, 4)
            om  == modbus_cvt_u16_get(ReqPdu, 6)
        IN  /\ Len(log) >= 1
            /\ log[1].cb = "read_hold"
            /\ log[1].addr = modbus_cvt_u16_get(ReqPdu, 2)
            /\ IF log[1].rst < 0 THEN Len(log) = 1
               ELSE /\ Len(log) = 2
                    /\ log[2].cb = "write_hold"
                    /\ log[2].addr = log[1].addr
                    /\ log[2].val = Masked(log[1].val, am, om)
                    /\ (am = 65535 /\ om = 0) => log[2].val = log[1].val
                    /\ am = 0 => log[2].val = om

\* register 0x7D9F masked with and_mask 0x00F2 and or_mask 0x0025 is written
\* back as 0x0097
C14_Witness ==
    /\ MaskWriteDispatched
    /\ slv.cb.kind = "user"
    /\ modbus_cvt_u16_get(ReqPdu, 4) = 242
    /\ modbus_cvt_u16_get(ReqPdu, 6) = 37
    /\ Len(slv.r.d.log) = 2
    /\ slv.r.d.log[1].val = 32159
    /\ slv.r.d.log[2].val = 151
    /\ slv.r.d.log[2].rst = 0

\* a write-and-read request was dispatched and both callbacks are registered
WriteReadDispatched ==
    /\ Dispatched
    /\ ReqFc = 23
    /\ slv.cb.kind # "null"
    /\ {"read_hold", "write_hold"} \subseteq slv.cb.has

\* C15: the write-and-read handler (0x17) invokes every write_hold of the
\* request before the first read_hold.  If a write_hold fails, no read_hold
\* is invoked and the response is an exception.  If no callback fails, the
\* handler has made the wr_nb writes and the rd_nb reads of the request, and
\* every register that lies in the write range and in the read range is
\* reported in the response with the value the request wrote.
C15_WriteBeforeRead ==
    WriteReadDispatched =>
        LET log   == slv.r.d.log
            rd_ad == modbus_cvt_u16_get(ReqPdu, 2)
            rd_nb == modbus_cvt_u16_get(ReqPdu, 4)
            wr_ad == modbus_cvt_u16_get(ReqPdu, 6)
            wr_nb == modbus_cvt_u16_get(ReqPdu, 8)
        IN  /\ \A i, j \in 1..Len(log) :
                (log[i].cb = "read_hold" /\ log[j].cb = "write_hold") => j < i
            /\ (\E k \in Failed : log[k].cb = "write_hold")
                => /\ \A k \in 1..Len(log) : log[k].cb = "write_hold"
                   /\ Len(slv.r.d.sent) = 1
                   /\ RspPduSent[1] = 23 + 128
            /\ Failed = {}
                => /\ Len(log) = wr_nb + rd_nb
                   /\ \A k \in 1..wr_nb : log[k].cb = "write_hold"
                   /\ RspPduSent[1] = 23
                   /\ \A i \in 0..(rd_nb - 1), j \in 0..(wr_nb - 1) :
                        (rd_ad + i) % 65536 = (wr_ad + j) % 65536
                            => modbus_cvt_u16_get(RspPduSent, 3 + 2 * i)
                                 = modbus_cvt_u16_get(ReqPdu, 11 + 2 * j)

\* a request that writes 0xABCD to register 108 and reads registers 107 and
\* 108 calls write_hold, then read_hold twice, and reports 0xABCD for 108
C15_Witness ==
    /\ WriteReadDispatched
    /\ slv.cb.kind = "user"
    /\ Failed = {}
    /\ Len(slv.r.d.log) = 3
    /\ slv.r.d.log[1] = Call("write_hold", 108, 43981, 0)
    /\ slv.r.d.log[2].cb = "read_hold"
    /\ slv.r.d.log[3] = Call("read_hold", 108, 43981, 0)
    /\ modbus_cvt_u16_get(RspPduSent, 5) = 43981

-----------------------------------------------------------------------------
(* Properties of the backend, checked under SpecBackend.                    *)

\* a call of modbus_backend_read on an open backend, with a buffer, has begun
ReadLooped == bkd.op = "read" /\ bkd.was # NULL /\ bkd.bufsize > 0

\* that call has returned
ReadDone == ReadLooped /\ bkd.pc = "idle"

C17_IdleOfByteTmoSeparates ==
    (/\ ReadDone
     /\ bkd.ret > 0
     /\ bkd.fedAt = 0
     /\ bkd.inner = 0
     /\ bkd.bufsize > 2 * MaxFrame
     /\ bkd.idle12 >= bkd.byte_tmo_ms)
        => bkd.got = FrameOf(1)

\* C17, amended: if a call of modbus_backend_read that began before frame 1
\* was fed has taken the whole of frame 1 and, before any byte of frame 2 is
\* fed, polls the port more than byte_tmo_ms after it last took bytes, then
\* that call returns frame 1 alone, and every buffer a later call returns
\* holds bytes of frame 2 only.
C17_ObservedSilenceSeparates ==
    bkd.sep =>
        /\ Len(bkd.rets) >= 1
        /\ bkd.rets[1] = FrameOf(1)
        /\ \A k \in 2..Len(bkd.rets) :
             \A i \in 1..Len(bkd.rets[k]) : bkd.rets[k][i] = 2

\* one call has returned frame 1 and the next one frame 2
C17_Witness ==
    /\ bkd.sep
    /\ bkd.pc = "idle"
    /\ bkd.op = "read"
    /\ bkd.rets = <<FrameOf(1), FrameOf(2)>>

\* C18 as stated: the handle of a backend is non-nil iff the port holds a
\* handle for it; a failed open leaves it nil, a successful close sets it
\* nil, a failed port close leaves it in place and returns -1, and close on
\* a closed backend returns 0 without calling the port.
C18_HandleIffHeld ==
    /\ bkd.hinst # NULL <=> bkd.held # {}
    /\ (bkd.op = "open" /\ bkd.ret # 0) => bkd.hinst = NULL
    /\ (bkd.op = "close" /\ bkd.ret = 0) => bkd.hinst = NULL
    /\ (bkd.op = "close" /\ bkd.pcalls = <<"close">> /\ bkd.ret # 0)
        => bkd.ret = -1 /\ bkd.hinst = bkd.was
    /\ (bkd.op = "close" /\ bkd.was = NULL) => bkd.ret = 0 /\ bkd.pcalls = <<>>

\* C19 as stated: modbus_backend_open on an open backend returns 0, does not
\* call the port's open and leaves the handle unchanged; open calls made in
\* a row acquire at most one port handle.
C19_OpenIdempotent ==
    bkd.op = "open" =>
        /\ bkd.was # NULL
            => bkd.ret = 0 /\ bkd.pcalls = <<>> /\ bkd.hinst = bkd.was
        /\ bkd.run <= 1

\* C20 as stated: modbus_backend_open of a SOCK backend returns 0, whatever
\* descriptor the backend was created with and whatever was called before.
C20_SockOpenSucceeds ==
    (bkd.type = "SOCK" /\ bkd.op = "open") => bkd.ret = 0

\* the backend has been destroyed: modbus_backend_destory has returned
Destroyed == bkd.pc = "freed"

\* C21 as stated: once modbus_backend_destory has returned, no port handle
\* acquired through the backend, nor the descriptor a SOCK backend was given,
\* is still open, even when the port's close reported failure.
C21_DestroyReleasesAll ==
    Destroyed => bkd.held = {}

\* C30: a call of modbus_backend_read, modbus_backend_write or
\* modbus_backend_flush made while the backend is closed returns -1 and calls
\* no function of the port.
C30_ClosedBackendRefuses ==
    (bkd.pc = "idle" /\ bkd.op \in {"read", "write", "flush"} /\ bkd.was = NULL)
        => bkd.ret = -1 /\ bkd.pcalls = <<>>

\* a backend that adopted descriptor 3 has been closed and is then read with
\* a buffer: the call returns -1 without the port
C30_Witness ==
    /\ bkd.type = "SOCK"
    /\ bkd.fd = 3
    /\ bkd.calls = 2
    /\ bkd.held = {}
    /\ bkd.op = "read"
    /\ bkd.bufsize > 0
    /\ bkd.was = NULL
    /\ bkd.ret = -1
    /\ bkd.pcalls = <<>>

-----------------------------------------------------------------------------
(* Properties of the TCP framing of the slave, checked under SpecSlave.     *)

\* the step received a TCP frame with a whole MBAP header
GotTcpFrame ==
    GotFrame /\ prototype = "TCP" /\ Len(slv.e.rx) > MB_TCP_MBAP_SIZE

\* the TID, PID, DLEN and UID fields of the received frame
ReqMbap ==
    [tid |-> modbus_cvt_u16_get(slv.e.rx, 1),
     pid |-> modbus_cvt_u16_get(slv.e.rx, 3),
     dlen |-> modbus_cvt_u16_get(slv.e.rx, 5),
     did |-> slv.e.rx[7]]

\* the MBAP header of the received frame is inconsistent
BadMbap ==
    \/ ReqMbap.pid # MB_TCP_MBAP_PID
    \/ ReqMbap.dlen # (Len(slv.e.rx) - MB_TCP_MBAP_SIZE) + 1

\* C24 as stated, for a slave built with the MBAP check: a TCP frame whose
\* DLEN is not the PDU length plus one, or whose PID is not 0x0000, gets no
\* reply and no callback.
C24_BadMbapIsSilent ==
    (GotTcpFrame /\ cfg.mbap_chk /\ BadMbap)
        => slv.r.d.sent = <<>> /\ slv.r.d.log = <<>>

\* C25 as stated: every TCP frame a slave transmits has PID 0x0000 and
\* DLEN equal to the PDU length plus one, also when the request it answers
\* carried another PID; its length is 7 plus the PDU length.
C25_SentMbapConsistent ==
    (slv.st = "done" /\ prototype = "TCP") =>
        \A k \in 1..Len(slv.r.d.sent) :
            LET f == slv.r.d.sent[k] IN
            /\ Len(f) > MB_TCP_MBAP_SIZE
            /\ modbus_cvt_u16_get(f, 3) = MB_TCP_MBAP_PID
            /\ modbus_cvt_u16_get(f, 5) = (Len(f) - MB_TCP_MBAP_SIZE) + 1

\* C26: every response a TCP slave transmits carries the TID and the UID of
\* the request frame it answers, and a request gets at most one response.
C26_ResponseEchoesTidAndUid ==
    (GotTcpFrame /\ slv.r.d.sent # <<>>) =>
        /\ Len(slv.r.d.sent) = 1
        /\ modbus_cvt_u16_get(slv.r.d.sent[1], 1) = ReqMbap.tid
        /\ slv.r.d.sent[1][7] = ReqMbap.did

\* an exception response to a request with TID 0x0201 and UID 0xFF carries
\* both
C26_Witness ==
    /\ GotTcpFrame
    /\ ReqMbap.tid = 513
    /\ ReqMbap.did = 255
    /\ Len(slv.r.d.sent) = 1
    /\ MODBUS_FC_EXCEPT_CHK(slv.r.d.sent[1][8])
    /\ modbus_cvt_u16_get(slv.r.d.sent[1], 1) = 513
    /\ slv.r.d.sent[1][7] = 255

-----------------------------------------------------------------------------
(* Properties of the reading handlers, checked under SpecSlave.             *)

\* a read request (0x01-0x04) was dispatched and answered with a normal
\* response
ReadAnswered ==
    /\ Dispatched
    /\ ReqFc \in FcRead
    /\ Len(slv.r.d.sent) = 1
    /\ RspPduSent[1] = ReqFc

\* C27: a successful read-bits handler (0x01, 0x02) answers with the byte
\* count ceil(qty / 8); bit i of the payload (byte i / 8, bit i % 8 from the
\* LSB) is the bit the callback returned for address addr + i, for i < qty,
\* and every later bit of the payload is 0.  A successful read-registers
\* handler (0x03, 0x04) answers with the byte count 2 * qty and register i
\* big-endian at payload offset 2i.  The callback was invoked once for each
\* address addr + i, in order.
C27_ReadResponseLayout ==
    ReadAnswered =>
        LET addr == modbus_cvt_u16_get(ReqPdu, 2)
            qty  == modbus_cvt_u16_get(ReqPdu, 4)
            rsp  == RspPduSent
            log  == slv.r.d.log
        IN  /\ Len(log) = qty
            /\ \A i \in 0..(qty - 1) : log[i + 1].addr = (addr + i) % 65536
            /\ IF ReqFc \in FcReadBits
               THEN /\ rsp[2] = (qty + 7) \div 8
                    /\ Len(rsp) = 2 + rsp[2]
                    /\ \A i \in 0..(8 * rsp[2] - 1) :
                         BitOf(rsp[3 + i \div 8], i % 8) =
                            IF i >= qty THEN 0
                            ELSE IF log[i + 1].val # 0 THEN 1 ELSE 0
               ELSE /\ rsp[2] = 2 * qty
                    /\ Len(rsp) = 2 + 2 * qty
                    /\ \A i \in 0..(qty - 1) :
                         /\ rsp[3 + 2 * i] = log[i + 1].val \div 256
                         /\ rsp[4 + 2 * i] = log[i + 1].val % 256

\* nine coils are read: the ninth bit is bit 0 of the second payload byte
C27_Witness ==
    /\ ReadAnswered
    /\ ReqFc = MODBUS_FC_READ_COILS
    /\ modbus_cvt_u16_get(ReqPdu, 4) = 9
    /\ Len(RspPduSent) = 4
    /\ RspPduSent[2] = 2
    /\ RspPduSent[3] = 85
    /\ RspPduSent[4] = 1
    /\ slv.r.d.log[9].val = 1

-----------------------------------------------------------------------------
(* Properties of two instances over two backends, checked under SpecPair.   *)

\* the pair p as instance i sees it when it runs alone: the other instances
\* and their transports as the factory left them
PairAlone(p, i) ==
    [p EXCEPT !.inst = [j \in DOMAIN p.inst |->
                          IF j = i THEN p.inst[j]
                          ELSE PairInst(p.inst[j].role, p.inst[j].prototype,
                                        p.inst[j].saddr, p.inst[j].backend)],
              !.wire = [b \in DOMAIN p.wire |->
                          IF b = p.inst[i].backend THEN p.wire[b]
                          ELSE [tx |-> <<>>, reads |-> 0]]]

\* what instance i and its transport are in p
PairOwn(p, i) == <<p.inst[i], p.wire[p.inst[i].backend]>>

\* the step from pair to pair' is a step of instance i alone: it reads and
\* writes the transport of i only, leaves every other instance and every
\* other transport as they were, and leads instance i and its transport to
\* what the same step leads them to when i runs alone
PairStepIsLocal(i) ==
    /\ \A j \in DOMAIN pair.inst \ {i} : pair'.inst[j] = pair.inst[j]
    /\ \A b \in DOMAIN pair.wire \ {pair.inst[i].backend} :
         pair'.wire[b] = pair.wire[b]
    /\ PairOwn(pair', i) \in
         {PairOwn(q, i) : q \in PairSends(PairAlone(pair, i), i)
                               \cup PairRecvs(PairAlone(pair, i), i)
                               \cup PairFinishes(PairAlone(pair, i), i)
                               \cup PairDeals(PairAlone(pair, i), i)}

\* C29: two instances created over distinct backends are independent under
\* every interleaving of their steps: every step is the step of one
\* instance, which changes the transaction counter, slave address, scratch
\* buffers, backend handle and transport of that instance only, and does to
\* them what it does when the other instance has never run.
C29_InstancesAreIndependent ==
    [][\E i \in DOMAIN pair.inst : PairStepIsLocal(i)]_vars

\* two TCP masters in the middle of interleaved operations: the first has
\* sent its second request while the second holds the response to its first
C29_Witness ==
    /\ pair.inst # <<>>
    /\ \A i \in DOMAIN pair.inst :
         pair.inst[i].role = "master" /\ pair.inst[i].prototype = "TCP"
    /\ pair.inst[1].pc = "sent" /\ pair.inst[1].tsid = 2
    /\ pair.inst[1].ret = 1
    /\ pair.inst[2].pc = "rcvd" /\ pair.inst[2].tsid = 1
    /\ pair.inst[1].buf # pair.inst[2].buf
    /\ Len(pair.wire[1].tx) = 2 /\ Len(pair.wire[2].tx) = 1

-----------------------------------------------------------------------------
(* Properties of the writing handlers, checked under SpecSlave.             *)

\* a write-multiple request (0x0F, 0x10) was dispatched and its callback is
\* registered
MultiWriteDispatched ==
    /\ Dispatched
    /\ ReqFc \in {15, 16}
    /\ slv.cb.kind # "null"
    /\ Needs(ReqFc) \subseteq slv.cb.has

\* item i (from 0) of the payload of the write-multiple request
ReqItem(i) ==
    IF ReqFc = 15 THEN modbus_bitmap_get(SubSeqFrom(ReqPdu, 7), i)
    ELSE modbus_cvt_u16_get(ReqPdu, 7 + 2 * i)

\* C37: the write-multiple handlers (0x0F, 0x10) write item i at address
\* addr + i, in ascending order.  If the callback of item k fails, the
\* items before it have been written and nothing is done to them
\* afterwards, no later item is attempted, and the response is an
\* exception; if none fails, every item is written and the response is
\* [fc][addr][qty].
C37_WritesInOrderNoRollback ==
    MultiWriteDispatched =>
        LET log  == slv.r.d.log
            addr == modbus_cvt_u16_get(ReqPdu, 2)
            nb   == modbus_cvt_u16_get(ReqPdu, 4)
        IN  /\ Len(log) <= nb
            /\ \A k \in 1..Len(log) :
                 /\ log[k].cb \in Needs(ReqFc)
                 /\ log[k].addr = (addr + k - 1) % 65536
                 /\ log[k].val = ReqItem(k - 1)
                 /\ k < Len(log) => log[k].rst = 0
            /\ Len(slv.r.d.sent) = 1
            /\ IF Failed # {}
               THEN /\ Failed = {Len(log)}
                    /\ Len(RspPduSent) = 2
                    /\ RspPduSent[1] = ReqFc + 128
               ELSE /\ Len(log) = nb
                    /\ RspPduSent = SubSeq(ReqPdu, 1, 5)

\* two coils are to be written and the second write_coil returns -4: the
\* first coil has been written, and the answer is [0x8F][0x04]
C37_Witness ==
    /\ MultiWriteDispatched
    /\ ReqFc = 15
    /\ slv.cb.kind = "user"
    /\ modbus_cvt_u16_get(ReqPdu, 4) = 2
    /\ Len(slv.r.d.log) = 2
    /\ slv.r.d.log[1].rst = 0
    /\ slv.r.d.log[1].addr = 107
    /\ slv.r.d.log[1].val = 1
    /\ slv.r.d.log[2].rst = -4
    /\ slv.r.d.log[2].addr = 108
    /\ RspPduSent = <<143, 4>>

\* the address the handler of the received request computes for its k-th
\* callback: addr + i for item i of a read or a write, addr for both
\* callbacks of a mask write, wr_addr + i for the writes of a write-and-read
\* and rd_addr + i for its reads
ItemAddr(k) ==
    IF ReqFc = 23
    THEN IF slv.r.d.log[k].cb = "write_hold"
         THEN modbus_cvt_u16_get(ReqPdu, 6) + k - 1
         ELSE modbus_cvt_u16_get(ReqPdu, 2)
                + Cardinality({j \in 1..(k - 1) : slv.r.d.log[j].cb = "read_hold"})
    ELSE IF ReqFc = 22 THEN modbus_cvt_u16_get(ReqPdu, 2)
    ELSE modbus_cvt_u16_get(ReqPdu, 2) + k - 1

\* C38: the address a handler hands to the callback for item i is
\* (addr + i) mod 2^16; a request whose range crosses 0xFFFF is dispatched
\* like any other and goes on at address 0.
C38_ItemAddressWraps ==
    Dispatched =>
        /\ \A k \in 1..Len(slv.r.d.log) :
             slv.r.d.log[k].addr = ItemAddr(k) % 65536
        /\ (/\ ReqFc \in FcRead \cup {15, 16}
            /\ slv.cb.kind = "user"
            /\ Needs(ReqFc) \subseteq slv.cb.has
            /\ Failed = {})
            => /\ Len(slv.r.d.log) = modbus_cvt_u16_get(ReqPdu, 4)
               /\ Len(slv.r.d.sent) = 1
               /\ RspPduSent[1] = ReqFc

\* two holding registers are read from 0xFFFF on: read_hold is called for
\* 0xFFFF and then for 0, and the two registers are sent
C38_Witness ==
    /\ Dispatched
    /\ ReqFc = 3
    /\ modbus_cvt_u16_get(ReqPdu, 2) = 65535
    /\ Len(slv.r.d.log) = 2
    /\ slv.r.d.log[1].addr = 65535
    /\ slv.r.d.log[2].addr = 0
    /\ slv.r.d.log[2].rst = 0
    /\ Len(slv.r.d.sent) = 1
    /\ RspPduSent[1] = 3
    /\ RspPduSent[2] = 4

\* the received frame carries a function code the engine does not support
\* and an address that is not the slave's
UnsupportedForOther ==
    /\ GotFrame
    /\ cfg.addr_chk
    /\ AddrMismatch
    /\ slv.r.d.plen = -1

\* C39: with address checking enabled the address check comes before the
\* test of the function code: a frame with an unsupported function code that
\* is addressed to another slave is answered with nothing, neither with an
\* illegal-function exception nor with anything else, and no callback runs.
C39_AddressBeforeFunction ==
    UnsupportedForOther =>
        /\ slv.r.d.stage = "addr"
        /\ slv.r.d.sent = <<>>
        /\ slv.r.d.log = <<>>

\* function code 0x65 sent on the RTU line to another slave: nothing is
\* transmitted
C39_Witness ==
    /\ UnsupportedForOther
    /\ prototype = "RTU"
    /\ slv.e.rx[2] = 101
    /\ slv.e.rx[1] \notin {saddr, 0}
    /\ slv.cb.kind = "user"
    /\ slv.r.d.sent = <<>>

\* C40: one call of modbus_slave_fsm transmits at most one frame, and only
\* when modbus_connect succeeded and modbus_recv returned a frame of
\* positive length in that call.  When the connect fails the step sleeps
\* 1000 ms and returns without reading; when the read returns 0 or a
\* negative value the step returns without dispatching and without sending.
C40_StepSendsAtMostOnce ==
    slv.st = "done" =>
        /\ Len(slv.r.d.sent) <= 1
        /\ slv.r.d.sent # <<>>
            => /\ slv.e.conn = "ok"
               /\ slv.e.rlen = "frame"
               /\ Len(slv.e.rx) > 0
               /\ slv.r.io = <<"connect", "recv", "deal">>
        /\ slv.e.conn # "ok"
            => /\ slv.r.io = <<"connect", "delay">>
               /\ slv.r.d.sent = <<>>
               /\ slv.r.d.log = <<>>
        /\ (slv.e.conn = "ok" /\ slv.e.rlen # "frame")
            => /\ slv.r.io = <<"connect", "recv">>
               /\ slv.r.d.stage = "none"
               /\ slv.r.d.sent = <<>>
               /\ slv.r.d.log = <<>>

\* the second step of an instance receives a request for two items and
\* answers it with one frame
C40_Witness ==
    /\ slv.st = "done"
    /\ nops = 2
    /\ slv.e.conn = "ok"
    /\ slv.e.rlen = "frame"
    /\ slv.cb.kind = "user"
    /\ Len(slv.r.d.sent) = 1
    /\ Len(slv.r.d.log) = 2

-----------------------------------------------------------------------------
(* Properties of the loop of modbus_backend_read, checked under             *)
(* SpecBackendLive (C34) and SpecBackend (C35).                             *)

\* how a call of modbus_backend_read that entered its loop may end
ReadOutcome ==
    \/ bkd.ret = -1 /\ bkd.err
    \/ bkd.ret = 0 /\ bkd.pos = 0 /\ bkd.el > bkd.ack_tmo_ms
    \/ bkd.ret = bkd.pos /\ bkd.pos > 0 /\ bkd.pos < bkd.bufsize
        /\ bkd.el > bkd.byte_tmo_ms
    \/ bkd.ret = bkd.bufsize /\ bkd.pos = bkd.bufsize

\* C34: a call of modbus_backend_read in its loop eventually returns,
\* whatever the port does (delivers nothing, delivers, fails): with -1, with
\* 0 after the ack timeout, with the bytes accumulated after the byte
\* timeout, or with bufsize once the buffer is full.
C34_ReadTerminates ==
    (bkd.pc = "read") ~> (ReadDone /\ ReadOutcome)

\* a call on a port that never delivers has returned 0 after the ack timeout
C34_Witness ==
    /\ ReadDone
    /\ bkd.ret = 0
    /\ bkd.taken = 0
    /\ bkd.el > bkd.ack_tmo_ms
    /\ bkd.rxq = <<>>

\* C35: modbus_backend_read stores and returns at most bufsize bytes: each
\* turn of its loop finds room left in the buffer, a full buffer makes it
\* return bufsize at the poll that filled it, and a port error makes it
\* return -1 also after bytes have been stored.
C35_ReadWithinBuffer ==
    ReadLooped =>
        /\ Len(bkd.buf) <= bkd.bufsize
        /\ bkd.pos = Len(bkd.buf)
        /\ bkd.pc = "read" => bkd.bufsize - bkd.pos > 0
        /\ bkd.pc = "idle" =>
            /\ bkd.ret <= bkd.bufsize
            /\ Len(bkd.got) <= bkd.bufsize
            /\ (bkd.taken = bkd.bufsize /\ ~bkd.err)
                => bkd.ret = bkd.bufsize /\ bkd.seen = -1 /\ bkd.quiet = 0
            /\ bkd.err => bkd.ret = -1

\* the port fails after the call has stored a byte: the call returns -1
C35_Witness ==
    /\ ReadDone
    /\ bkd.err
    /\ bkd.taken > 0
    /\ bkd.taken < bkd.bufsize
    /\ bkd.ret = -1

-----------------------------------------------------------------------------
(* Properties of the TCP frame codec, checked under SpecCodec.              *)

\* modbus_tcp_frm_make has been called on a structure whose PDU the PDU
\* encoder cannot generate
MadeWithoutPdu ==
    /\ codec.st \in {"made", "parsed"}
    /\ modbus_pdu_make(codec.frm.pdu, codec.type) = <<>>

\* C33 as stated: modbus_tcp_frm_make returns 0 when the PDU encoder yields
\* length 0, so that no frame made of an MBAP header alone is handed to the
\* transport.
C33_NoHeaderOnlyFrame == MadeWithoutPdu => codec.flen = 0

=============================================================================
